---- MODULE Spec2Model ----
(***************************************************************************)
(* Portfolio valuation and trade-economics engine of the trade journal:    *)
(* the capital ledger and the monthly valuator (TruePortfolioContext),     *)
(* the FIFO lot matcher and trade metrics (tradeCalculations) and the      *)
(* recalculation orchestrator (use-trades).                                *)
(*                                                                         *)
(* Conventions of the model                                                *)
(*  - a date string "YYYY-MM-DD" is the record [y, m, d]; NoDate is an     *)
(*    absent one.  The environment is taken to be an English locale in   *)
(*    a time zone at or east of UTC (the application is an Indian one),    *)
(*    so that toLocaleString('default', {month:'short'}) and getFullYear   *)
(*    give the month and year written in the string.                       *)
(*  - money, prices and quantities are integers; a field that the code     *)
(*    tests against null/undefined holds Null or Some(v).                  *)
(*  - a quotient of numbers (an average, a percentage) is an exact         *)
(*    fraction [n, d] in lowest terms; the rounding of IEEE doubles is     *)
(*    not modelled.                                                        *)
(***************************************************************************)
EXTENDS Integers, Sequences, FiniteSets, TLC

VARIABLES
    yearlyStartingCapitals,            \* YearlyStartingCapital[] (React state)
    monthlyStartingCapitalOverrides,   \* MonthlyStartingCapitalOverride[]
    capitalChanges,                    \* CapitalChange[]
    trades,                            \* the trade list handed to the valuator / kept by useTrades
    lastCall,                          \* outcome of the last query made by a caller
    fifoEntries,                       \* calcRealizedPL_FIFO: the caller's entry lots
    fifoExits,                         \* calcRealizedPL_FIFO: the caller's exit lots
    fifoSide,                          \* calcRealizedPL_FIFO: the side argument
    fifoResult,                        \* calcRealizedPL_FIFO: outcome of the call
    rawTrades,                         \* recalculateAllTrades: the list passed in
    recalculated,                      \* recalculateAllTrades: the list returned
    recalculatedAgain,                 \* recalculateAllTrades: the list returned for that list
    today,                             \* the day new Date() falls on
    heatArgs,                          \* calcOpenHeat: the arguments of the call
    heatResult,                        \* calcOpenHeat: outcome of the call
    xirrArgs,                          \* calculateXIRR / calcXIRR: the arguments of the call
    xirrResult,                        \* calculateXIRR / calcXIRR: outcome of the call
    passMemo,                          \* the Map shared by the calls of one valuation pass
    metricArgs,                        \* calcHoldingDays / calcStockMove: the caller's arguments
    metricResult,                      \* calcHoldingDays / calcStockMove: outcome of the call
    isLoading,                         \* useTrades: the isLoading state
    remoteTrades,                      \* the trade_data stored remotely
    localTrades,                       \* the trades kept in localStorage
    fetchState,                        \* useTrades: the progress of fetchTrades()
    fetchReply,                        \* the trade_data the store has read for fetchTrades()
    dueEffects,                        \* useTrades: the effects to run after the last render
    upsertLog                          \* the calls of upsertTrades made so far

vars == <<yearlyStartingCapitals, monthlyStartingCapitalOverrides, capitalChanges,
          trades, lastCall, fifoEntries, fifoExits, fifoSide, fifoResult,
          rawTrades, recalculated, recalculatedAgain, today,
          heatArgs, heatResult, xirrArgs, xirrResult,
          passMemo, metricArgs, metricResult,
          isLoading, remoteTrades, localTrades, fetchState, fetchReply, dueEffects,
          upsertLog>>

ledgerVars == <<yearlyStartingCapitals, monthlyStartingCapitalOverrides, capitalChanges>>
fifoVars == <<fifoEntries, fifoExits, fifoSide, fifoResult>>
orchVars == <<rawTrades, recalculated, recalculatedAgain, today>>
calcVars == <<heatArgs, heatResult, xirrArgs, xirrResult>>
mountVars ==
    <<isLoading, remoteTrades, localTrades, fetchState, fetchReply, dueEffects, upsertLog>>
auxVars == <<passMemo, metricArgs, metricResult, mountVars>>

\* JS null/undefined for a value that may be absent; a present value v is Some(v)
Null == <<>>
Some(v) == <<v>>
ValueOf(opt) == opt[1]
\* a missing or empty date string
NoDate == [y |-> 0, m |-> 0, d |-> 0]
NoCall == [fn |-> "none"]
\* no call of calcOpenHeat or of the XIRR functions is modelled
CalcIdle ==
    /\ heatArgs = NoCall /\ heatResult = NoCall
    /\ xirrArgs = NoCall /\ xirrResult = NoCall
\* useTrades is not mounted
MountIdle ==
    /\ isLoading = FALSE /\ remoteTrades = <<>> /\ localTrades = <<>>
    /\ fetchState = "idle" /\ fetchReply = <<>> /\ dueEffects = {} /\ upsertLog = <<>>
\* no valuation pass and no call of calcHoldingDays or calcStockMove is modelled
AuxIdle ==
    /\ passMemo = <<>> /\ metricArgs = NoCall /\ metricResult = NoCall
    /\ MountIdle

\* ---------------------------------------------------------------- bounds
MaxOverrides == 2
MaxChanges == 1
MaxLots == 2
MaxTrades == 2

\* ------------------------------------------------------------- generic helpers
RECURSIVE SumSeq(_)
SumSeq(s) == IF s = <<>> THEN 0 ELSE Head(s) + SumSeq(Tail(s))

\* Array.prototype.filter: keep[i] is the callback's answer for s[i]
FilterSeq(s, keep) ==
    LET F[i \in 0..Len(s)] ==
            IF i = 0 THEN <<>>
            ELSE IF keep[i] THEN Append(F[i - 1], s[i]) ELSE F[i - 1]
    IN F[Len(s)]

\* Array.prototype.findIndex: test[i] is the callback's answer for the i-th
\* element; the first index that satisfies it, 0 when none (JS -1)
FindIndex(test) ==
    IF \E i \in DOMAIN test : test[i]
    THEN CHOOSE i \in DOMAIN test : test[i] /\ \A j \in 1..(i - 1) : ~test[j]
    ELSE 0

\* Array.prototype.sort with a consistent comparator: stable (ES2019).
\* cmp[i][j] is the comparator's result for (s[i], s[j]): negative, zero, positive.
\* The sort is made on the indices of s.
InsertSorted(sorted, x, cmp) ==
    LET p == FindIndex([k \in 1..Len(sorted) |-> cmp[x][sorted[k]] < 0])
    IN IF p = 0 THEN Append(sorted, x)
       ELSE SubSeq(sorted, 1, p - 1) \o <<x>> \o SubSeq(sorted, p, Len(sorted))

StableSort(s, cmp) ==
    LET F[i \in 0..Len(s)] ==
            IF i = 0 THEN <<>> ELSE InsertSorted(F[i - 1], i, cmp)
    IN [k \in 1..Len(s) |-> s[F[Len(s)][k]]]

\* ---------------------------------------------------------------- months and dates
months == <<"Jan", "Feb", "Mar", "Apr", "May", "Jun", "Jul", "Aug", "Sep", "Oct", "Nov", "Dec">>

monthMap == [January |-> "Jan", February |-> "Feb", March |-> "Mar", April |-> "Apr",
             May |-> "May", June |-> "Jun", July |-> "Jul", August |-> "Aug",
             September |-> "Sep", October |-> "Oct", November |-> "Nov", December |-> "Dec"]

\* months.indexOf(m), 1-based; 0 when absent (JS -1)
MonthIndexOf(m) == FindIndex([i \in 1..Len(months) |-> months[i] = m])

\* String.prototype.localeCompare on the month tokens the model stores: the rank of
\* a token in alphabetical order
AlphaOrder == <<"Apr", "Aug", "Dec", "Feb", "Foo", "Jan", "Jul", "Jun", "Mar", "May",
                "Nov", "Oct", "Sep", "Sept">>
AlphaRank(s) == FindIndex([i \in 1..Len(AlphaOrder) |-> AlphaOrder[i] = s])
LocaleCompare(a, b) == AlphaRank(a) - AlphaRank(b)

Date(y, m, d) == [y |-> y, m |-> m, d |-> d]

\* new Date(s).toLocaleString('default', { month: 'short' })
MonthShort(date) == months[date.m]
\* new Date(s).getFullYear()
FullYear(date) == date.y

IsLeap(y) == (y % 4 = 0 /\ y % 100 # 0) \/ y % 400 = 0
DaysInMonth(y, m) ==
    IF m = 2 THEN (IF IsLeap(y) THEN 29 ELSE 28)
    ELSE IF m \in {4, 6, 9, 11} THEN 30 ELSE 31

RECURSIVE DaysBeforeMonth(_, _)
DaysBeforeMonth(y, m) == IF m = 1 THEN 0 ELSE DaysBeforeMonth(y, m - 1) + DaysInMonth(y, m - 1)

RECURSIVE DaysBeforeYear(_)
DaysBeforeYear(y) ==
    IF y <= 2020 THEN 0 ELSE DaysBeforeYear(y - 1) + (IF IsLeap(y - 1) THEN 366 ELSE 365)

\* new Date(s).getTime(), in whole days (counted from 2020-01-01)
GetTime(date) == DaysBeforeYear(date.y) + DaysBeforeMonth(date.y, date.m) + (date.d - 1)

\* ---------------------------------------------------------------- capital ledger
\* setYearlyStartingCapital without the search for the year's record: always push
YearlyAfterSetPush(prev, year, amount) ==
    LET updated == Append(prev, [year |-> year, startingCapital |-> amount])
    IN StableSort(updated, [i \in 1..Len(updated) |-> [j \in 1..Len(updated) |->
                               updated[i].year - updated[j].year]])

\* setYearlyStartingCapital: replace the year's record or push, then sort by year
YearlyAfterSet(prev, year, amount) ==
    LET existingIndex == FindIndex([i \in 1..Len(prev) |-> prev[i].year = year])
        newCapital == [year |-> year, startingCapital |-> amount]
        updated == IF existingIndex >= 1
                   THEN [prev EXCEPT ![existingIndex] = newCapital]
                   ELSE Append(prev, newCapital)
    IN StableSort(updated, [i \in 1..Len(updated) |-> [j \in 1..Len(updated) |->
                               updated[i].year - updated[j].year]])

\* getYearlyStartingCapital: capital?.startingCapital || 0
getYearlyStartingCapital(year) ==
    LET i == FindIndex([k \in 1..Len(yearlyStartingCapitals) |->
                           yearlyStartingCapitals[k].year = year])
    IN IF i = 0 THEN 0 ELSE yearlyStartingCapitals[i].startingCapital

\* the month token used as it was passed
NormalizeOverrideMonthNone(month) == month

\* month.length > 3 ? (map[month] || month) : month
NormalizeOverrideMonth(month) ==
    IF Len(month) > 3
    THEN (IF month \in DOMAIN monthMap THEN monthMap[month] ELSE month)
    ELSE month

\* setMonthlyStartingCapitalOverride
OverridesAfterSet(prev, month, year, amount) ==
    LET normalizedMonth == NormalizeOverrideMonth(month)
        existingIndex == FindIndex([i \in 1..Len(prev) |->
                                       prev[i].month = normalizedMonth /\ prev[i].year = year])
        newOverride == [id |-> <<normalizedMonth, year>>, month |-> normalizedMonth,
                        year |-> year, startingCapital |-> amount]
        updated == IF existingIndex >= 1
                   THEN [prev EXCEPT ![existingIndex] = newOverride]
                   ELSE Append(prev, newOverride)
    IN StableSort(updated, [i \in 1..Len(updated) |-> [j \in 1..Len(updated) |->
                               IF updated[i].year - updated[j].year # 0
                               THEN updated[i].year - updated[j].year
                               ELSE LocaleCompare(updated[i].month, updated[j].month)]])

\* removeMonthlyStartingCapitalOverride
OverridesAfterRemove(prev, month, year) ==
    LET normalizedMonth == NormalizeOverrideMonth(month)
    IN FilterSeq(prev, [i \in 1..Len(prev) |->
                           ~(prev[i].month = normalizedMonth /\ prev[i].year = year)])

\* a lookup that never finds an override
getMonthlyStartingCapitalOverrideNone(month, year) == Null

\* getMonthlyStartingCapitalOverride: override ? override.startingCapital : null
getMonthlyStartingCapitalOverride(month, year) ==
    LET normalizedMonth == NormalizeOverrideMonth(month)
        i == FindIndex([k \in 1..Len(monthlyStartingCapitalOverrides) |->
                           /\ monthlyStartingCapitalOverrides[k].month = normalizedMonth
                           /\ monthlyStartingCapitalOverrides[k].year = year])
    IN IF i = 0 THEN Null ELSE Some(monthlyStartingCapitalOverrides[i].startingCapital)

\* getCapitalChangesForMonth: deposits minus withdrawals dated in (month, year)
getCapitalChangesForMonth(month, year) ==
    LET inMonth == FilterSeq(capitalChanges,
                     [i \in 1..Len(capitalChanges) |->
                         /\ capitalChanges[i].date # NoDate
                         /\ MonthShort(capitalChanges[i].date) = month
                         /\ FullYear(capitalChanges[i].date) = year])
    IN SumSeq([i \in 1..Len(inMonth) |->
                  IF inMonth[i].type = "deposit" THEN inMonth[i].amount ELSE -inMonth[i].amount])

\* the contribution of one trade in getTradesPLForMonth's reduce
TradePL(trade) ==
    IF trade.plRs # Null THEN ValueOf(trade.plRs)
    ELSE LET exitedQty == trade.exitedQty
             avgExitPrice == trade.avgExitPrice
             avgEntry == IF trade.avgEntry # 0 THEN trade.avgEntry ELSE trade.entry
         IN IF exitedQty > 0 /\ avgExitPrice > 0 /\ avgEntry > 0
            THEN (IF trade.buySell = "Buy"
                  THEN (avgExitPrice - avgEntry) * exitedQty
                  ELSE (avgEntry - avgExitPrice) * exitedQty)
            ELSE 0

\* a selection of the trades by the date of their exit instead of trade.date
getTradesPLForMonthByExit(month, year, trs) ==
    IF Len(trs) = 0 THEN 0
    ELSE LET inMonth == FilterSeq(trs,
                          [i \in 1..Len(trs) |->
                              /\ trs[i].exit1Date # NoDate
                              /\ MonthShort(trs[i].exit1Date) = month
                              /\ FullYear(trs[i].exit1Date) = year])
         IN SumSeq([i \in 1..Len(inMonth) |-> TradePL(inMonth[i])])

\* getTradesPLForMonth: the trades are selected by trade.date
getTradesPLForMonth(month, year, trs) ==
    IF Len(trs) = 0 THEN 0
    ELSE LET inMonth == FilterSeq(trs,
                          [i \in 1..Len(trs) |->
                              /\ trs[i].date # NoDate
                              /\ MonthShort(trs[i].date) = month
                              /\ FullYear(trs[i].date) = year])
         IN SumSeq([i \in 1..Len(inMonth) |-> TradePL(inMonth[i])])

\* normalizeMonth
normalizeMonth(month) ==
    IF MonthIndexOf(month) # 0 THEN month
    ELSE IF month \in DOMAIN monthMap THEN monthMap[month] ELSE month

\* ---------------------------------------------------------------- monthly valuator
EmptyMemo == [k \in {} |-> 0]

\* the startingCapital field of a snapshot that fails to add the capital changes
SnapshotUnrevised(normalizedMonth, year, startingCapital, capitalChangesAmount, pl) ==
    [month |-> normalizedMonth, year |-> year,
     startingCapital |-> startingCapital,
     capitalChanges |-> capitalChangesAmount,
     pl |-> pl, finalCapital |-> startingCapital + capitalChangesAmount + pl]

\* the snapshot object built at the end of calculateMonthlyTruePortfolio: the
\* startingCapital field holds the revised starting capital
Snapshot(normalizedMonth, year, startingCapital, capitalChangesAmount, pl) ==
    LET revisedStartingCapital == startingCapital + capitalChangesAmount
        finalCapital == revisedStartingCapital + pl
    IN [month |-> normalizedMonth, year |-> year,
        startingCapital |-> revisedStartingCapital,
        capitalChanges |-> capitalChangesAmount,
        pl |-> pl, finalCapital |-> finalCapital]

\* an override test by truthiness (if (override)) instead of override !== null
StartingCapitalTruthyOverride(override, normalizedMonth, year, prevFinalCapital) ==
    IF override # Null /\ ValueOf(override) # 0 THEN ValueOf(override)
    ELSE IF normalizedMonth = "Jan" THEN getYearlyStartingCapital(year)
    ELSE prevFinalCapital

\* a January that starts from 0 instead of the yearly starting capital
StartingCapitalJanZero(override, normalizedMonth, year, prevFinalCapital) ==
    IF override # Null THEN ValueOf(override)
    ELSE IF normalizedMonth = "Jan" THEN 0
    ELSE prevFinalCapital

\* the choice of startingCapital in calculateMonthlyTruePortfolio: the override,
\* else the yearly starting capital in January, else the previous month's final capital
StartingCapital(override, normalizedMonth, year, prevFinalCapital) ==
    IF override # Null THEN ValueOf(override)
    ELSE IF normalizedMonth = "Jan" THEN getYearlyStartingCapital(year)
    ELSE prevFinalCapital

\* a key that leaves the year out
MemoKeyMonthOnly(normalizedMonth, year) == <<normalizedMonth, 0>>

\* const key = `${normalizedMonth}-${year}`
MemoKey(normalizedMonth, year) == <<normalizedMonth, year>>

\* calculateMonthlyTruePortfolio(month, year, trades, memo): the outcome is
\* [threw, value, memo], memo being the Map after the call
RECURSIVE calculateMonthlyTruePortfolio(_, _, _, _)
calculateMonthlyTruePortfolio(month, year, trs, memo) ==
    LET normalizedMonth == normalizeMonth(month)
        monthIndex == MonthIndexOf(normalizedMonth)
        key == MemoKey(normalizedMonth, year)
    IN IF monthIndex = 0 THEN [threw |-> TRUE, value |-> Null, memo |-> memo]
       ELSE IF key \in DOMAIN memo THEN [threw |-> FALSE, value |-> memo[key], memo |-> memo]
       ELSE
         LET override == getMonthlyStartingCapitalOverride(normalizedMonth, year)
             recurse == override = Null /\ normalizedMonth # "Jan"
             prevMonthCall == IF recurse
                              THEN calculateMonthlyTruePortfolio(months[monthIndex - 1], year, trs, memo)
                              ELSE [threw |-> FALSE, value |-> Null, memo |-> memo]
             prevFinalCapital == IF recurse THEN prevMonthCall.value.finalCapital ELSE 0
             startingCapital == StartingCapital(override, normalizedMonth, year, prevFinalCapital)
             capitalChangesAmount == getCapitalChangesForMonth(normalizedMonth, year)
             pl == getTradesPLForMonth(normalizedMonth, year, trs)
             result == Snapshot(normalizedMonth, year, startingCapital, capitalChangesAmount, pl)
         IN [threw |-> FALSE, value |-> result,
             memo |-> [k \in DOMAIN prevMonthCall.memo \cup {key} |->
                          IF k = key THEN result ELSE prevMonthCall.memo[k]]]

\* a lookup that goes on using a Map filled before the ledger was changed: it
\* holds the snapshot of January 2024 of an empty ledger
getMonthlyTruePortfolioKeptMemo(month, year, trs) ==
    calculateMonthlyTruePortfolio(month, year, trs,
        [k \in {MemoKey("Jan", 2024)} |-> Snapshot("Jan", 2024, 0, 0, 0)])

\* getMonthlyTruePortfolio: a fresh memo per call
getMonthlyTruePortfolio(month, year, trs) ==
    calculateMonthlyTruePortfolio(month, year, trs, EmptyMemo)

\* String(n) for an integer n >= 0, as the sequence of its digits
RECURSIVE DecimalString(_)
DecimalString(n) == IF n < 10 THEN <<n>> ELSE Append(DecimalString(n \div 10), n % 10)

\* the default comparison of Array.prototype.sort: the elements are compared as
\* strings, code unit by code unit, a proper prefix coming first; -1, 0 or 1
RECURSIVE CompareStrings(_, _)
CompareStrings(a, b) ==
    IF a = <<>> /\ b = <<>> THEN 0
    ELSE IF a = <<>> THEN -1
    ELSE IF b = <<>> THEN 1
    ELSE IF Head(a) < Head(b) THEN -1
    ELSE IF Head(a) > Head(b) THEN 1
    ELSE CompareStrings(Tail(a), Tail(b))

\* Set.prototype.add for each element of a list, in order
RECURSIVE AddAll(_, _)
AddAll(seen, list) ==
    IF list = <<>> THEN seen
    ELSE AddAll(IF \E k \in 1..Len(seen) : seen[k] = Head(list) THEN seen
                ELSE Append(seen, Head(list)),
                Tail(list))

\* the years getAllMonthlyTruePortfolios collects: those of the yearly capitals,
\* of the dated trades and of the dated capital changes, in insertion order
yearsWithData(trs) ==
    LET datedTrades == FilterSeq(trs, [i \in 1..Len(trs) |-> trs[i].date # NoDate])
        datedChanges == FilterSeq(capitalChanges,
                            [i \in 1..Len(capitalChanges) |-> capitalChanges[i].date # NoDate])
    IN AddAll(AddAll(AddAll(<<>>,
                  [i \in 1..Len(yearlyStartingCapitals) |-> yearlyStartingCapitals[i].year]),
                  [i \in 1..Len(datedTrades) |-> FullYear(datedTrades[i].date)]),
                  [i \in 1..Len(datedChanges) |-> FullYear(datedChanges[i].date)])

\* Array.from(yearsWithData).sort(): no comparator is passed
sortedYears(trs) ==
    LET ys == yearsWithData(trs)
    IN StableSort(ys, [i \in 1..Len(ys) |-> [j \in 1..Len(ys) |->
                          CompareStrings(DecimalString(ys[i]), DecimalString(ys[j]))]])

\* the two nested forEach of getAllMonthlyTruePortfolios over the pairs still to
\* do: every call shares memo, a call that throws pushes nothing
RECURSIVE BulkPass(_, _, _, _)
BulkPass(pairs, trs, memo, result) ==
    IF pairs = <<>> THEN result
    ELSE LET call == calculateMonthlyTruePortfolio(Head(pairs)[1], Head(pairs)[2], trs, memo)
         IN BulkPass(Tail(pairs), trs, call.memo,
                     IF call.threw THEN result ELSE Append(result, call.value))

\* getAllMonthlyTruePortfolios(trades)
getAllMonthlyTruePortfolios(trs) ==
    LET ys == sortedYears(trs)
        pairs == [k \in 1..(12 * Len(ys)) |->
                     <<months[((k - 1) % 12) + 1], ys[((k - 1) \div 12) + 1]>>]
    IN BulkPass(pairs, trs, EmptyMemo, <<>>)

Fallback == 100000

\* a lookup without the catch: the error reaches the caller
getTruePortfolioSizeNoCatch(month, year, trs) ==
    LET monthlyData == getMonthlyTruePortfolio(month, year, trs)
    IN IF monthlyData.threw THEN [threw |-> TRUE, value |-> 0]
       ELSE [threw |-> FALSE, value |-> monthlyData.value.finalCapital]

\* getTruePortfolioSize: try { ...finalCapital } catch { return 100000 }
getTruePortfolioSize(month, year, trs) ==
    LET monthlyData == getMonthlyTruePortfolio(month, year, trs)
    IN IF monthlyData.threw THEN [threw |-> FALSE, value |-> Fallback]
       ELSE [threw |-> FALSE, value |-> monthlyData.value.finalCapital]

\* ---------------------------------------------------------------- FIFO lot matcher
Min(a, b) == IF a < b THEN a ELSE b
Max(a, b) == IF a > b THEN a ELSE b

\* an inner loop that goes on matching once the entry lots are exhausted, the
\* missing lot counting as one of price 0
RECURSIVE MatchExitPastEntries(_, _, _, _)
MatchExitPastEntries(st, exit, remainingExitQty, side) ==
    IF remainingExitQty > 0 /\ Len(st.entryLots) > 0
    THEN LET lot == st.entryLots[1]
             qtyToUse == Min(lot.qty, remainingExitQty)
             pl == IF side = "Buy" THEN qtyToUse * (exit.price - lot.price)
                   ELSE qtyToUse * (lot.price - exit.price)
             lotAfter == [lot EXCEPT !.qty = lot.qty - qtyToUse]
             lotsAfter == IF lotAfter.qty = 0 THEN Tail(st.entryLots)
                          ELSE <<lotAfter>> \o Tail(st.entryLots)
         IN MatchExitPastEntries([entryLots |-> lotsAfter, totalPL |-> st.totalPL + pl,
                                  matched |-> st.matched + qtyToUse],
                                 exit, remainingExitQty - qtyToUse, side)
    ELSE IF remainingExitQty > 0
    THEN [st EXCEPT !.totalPL = st.totalPL + (IF side = "Buy" THEN 1 ELSE -1)
                                                 * remainingExitQty * exit.price,
                    !.matched = st.matched + remainingExitQty]
    ELSE st

\* the while loop of calcRealizedPL_FIFO for one exit lot: st holds entryLots (the
\* clone being consumed), totalPL, and matched, the quantity matched so far (a
\* ghost of the model, the sum of qtyToUse)
RECURSIVE MatchExit(_, _, _, _)
MatchExit(st, exit, remainingExitQty, side) ==
    IF remainingExitQty > 0 /\ Len(st.entryLots) > 0
    THEN LET lot == st.entryLots[1]
             qtyToUse == Min(lot.qty, remainingExitQty)
             pl == IF side = "Buy" THEN qtyToUse * (exit.price - lot.price)
                   ELSE qtyToUse * (lot.price - exit.price)
             lotAfter == [lot EXCEPT !.qty = lot.qty - qtyToUse]
             lotsAfter == IF lotAfter.qty = 0 THEN Tail(st.entryLots)
                          ELSE <<lotAfter>> \o Tail(st.entryLots)
         IN MatchExit([entryLots |-> lotsAfter, totalPL |-> st.totalPL + pl,
                       matched |-> st.matched + qtyToUse],
                      exit, remainingExitQty - qtyToUse, side)
    ELSE st

\* the for loop over the exit lots
RECURSIVE MatchExits(_, _, _)
MatchExits(st, exitLots, side) ==
    IF exitLots = <<>> THEN st
    ELSE MatchExits(MatchExit(st, Head(exitLots), Head(exitLots).qty, side), Tail(exitLots), side)

\* a matcher that takes the cheapest entry lot first
calcRealizedPL_FIFO_CheapestFirst(entryArg, exitArg, side) ==
    MatchExits([entryLots |-> StableSort(entryArg,
                                 [i \in 1..Len(entryArg) |-> [j \in 1..Len(entryArg) |->
                                     entryArg[i].price - entryArg[j].price]]),
                totalPL |-> 0, matched |-> 0], exitArg, side)

\* calcRealizedPL_FIFO(entries, exits, buySell): the result carries totalPL (the
\* value returned), the ghost matched and the clone's remaining entryLots
calcRealizedPL_FIFO(entryArg, exitArg, side) ==
    MatchExits([entryLots |-> entryArg, totalPL |-> 0, matched |-> 0], exitArg, side)

\* ---------------------------------------------------------------- trade records
\* A trade as stored (raw fields as entered in the form; the derived fields
\* absent or as left by an earlier recalculation).
BlankTrade ==
    [id |-> "t0", tradeNo |-> "0", date |-> NoDate, name |-> "abc", buySell |-> "Buy",
     entry |-> 0, sl |-> 0, tsl |-> 0, cmp |-> 0, initialQty |-> 0,
     pyramid1Price |-> 0, pyramid1Qty |-> 0, pyramid1Date |-> NoDate,
     pyramid2Price |-> 0, pyramid2Qty |-> 0, pyramid2Date |-> NoDate,
     exit1Price |-> 0, exit1Qty |-> 0, exit1Date |-> NoDate,
     exit2Price |-> 0, exit2Qty |-> 0, exit2Date |-> NoDate,
     exit3Price |-> 0, exit3Qty |-> 0, exit3Date |-> NoDate,
     positionStatus |-> "Open",
     avgEntry |-> 0, exitedQty |-> 0, avgExitPrice |-> 0, plRs |-> Null]

\* ---------------------------------------------------------------- numbers
Abs(x) == IF x < 0 THEN -x ELSE x
RECURSIVE GCD(_, _)
GCD(a, b) == IF b = 0 THEN a ELSE GCD(b, a % b)
\* the quotient n / d (d # 0) in lowest terms with a positive denominator
Rat(n, d) ==
    LET g == GCD(Abs(n), Abs(d))
    IN IF d < 0 THEN [n |-> (-n) \div g, d |-> (-d) \div g]
       ELSE [n |-> n \div g, d |-> d \div g]
RatOfInt(i) == [n |-> i, d |-> 1]
RatZero == RatOfInt(0)
\* (the sum over the least common denominator and the product after
\* cancellation, which keep the intermediate numbers small)
RatAdd(a, b) ==
    LET g == GCD(a.d, b.d)
    IN Rat(a.n * (b.d \div g) + b.n * (a.d \div g), (a.d \div g) * b.d)
RatSub(a, b) ==
    LET g == GCD(a.d, b.d)
    IN Rat(a.n * (b.d \div g) - b.n * (a.d \div g), (a.d \div g) * b.d)
RatMul(a, b) ==
    LET g1 == GCD(Abs(a.n), b.d)
        g2 == GCD(Abs(b.n), a.d)
    IN IF a.n = 0 \/ b.n = 0 THEN [n |-> 0, d |-> 1]
       ELSE Rat((a.n \div g1) * (b.n \div g2), (a.d \div g2) * (b.d \div g1))
RatDiv(a, b) ==
    IF b.n < 0 THEN RatMul(a, [n |-> -b.d, d |-> -b.n]) ELSE RatMul(a, [n |-> b.d, d |-> b.n])
RatNeg(a) == [n |-> -a.n, d |-> a.d]
RatAbs(a) == [n |-> Abs(a.n), d |-> a.d]
RatLeq(a, b) == a.n * b.d <= b.n * a.d

\* ---------------------------------------------------------------- trade metrics
\* calcAvgEntry: totalQty ? totalValue / totalQty : 0
calcAvgEntry(lots) ==
    LET totalQty == SumSeq([k \in 1..Len(lots) |-> lots[k].qty])
        totalValue == SumSeq([k \in 1..Len(lots) |-> lots[k].price * lots[k].qty])
    IN IF totalQty # 0 THEN Rat(totalValue, totalQty) ELSE RatZero

calcPositionSize(avgEntry, totalQty) == RatMul(avgEntry, RatOfInt(totalQty))

\* portfolioSize ? (positionSize / portfolioSize) * 100 : 0
calcAllocation(positionSize, portfolioSize) ==
    IF portfolioSize # 0
    THEN RatMul(RatDiv(positionSize, RatOfInt(portfolioSize)), RatOfInt(100))
    ELSE RatZero

calcSLPercent(sl, entry) ==
    IF entry = 0 \/ sl = 0 THEN RatZero
    ELSE RatAbs(RatMul(Rat(entry - sl, entry), RatOfInt(100)))

calcAvgExitPrice(lots) ==
    LET totalQty == SumSeq([k \in 1..Len(lots) |-> lots[k].qty])
        totalValue == SumSeq([k \in 1..Len(lots) |-> lots[k].price * lots[k].qty])
    IN IF totalQty # 0 THEN Rat(totalValue, totalQty) ELSE RatZero

\* ((price - avgEntry) / avgEntry) * 100
\* (the move relative to the price instead of the average entry)
MovePctOfPrice(price, avgEntry) == RatMul(RatDiv(RatSub(price, avgEntry), price), RatOfInt(100))
MovePct(price, avgEntry) == RatMul(RatDiv(RatSub(price, avgEntry), avgEntry), RatOfInt(100))

calcStockMove(avgEntry, avgExit, cmp, openQty, exitedQty, positionStatus, side) ==
    LET totalQty == openQty + exitedQty
        movePercentage ==
            IF positionStatus = "Open"
            THEN (IF cmp = 0 THEN RatZero ELSE MovePct(RatOfInt(cmp), avgEntry))
            ELSE IF positionStatus = "Closed"
            THEN (IF avgExit.n = 0 THEN RatZero ELSE MovePct(avgExit, avgEntry))
            ELSE IF positionStatus = "Partial"
            THEN (IF cmp = 0 \/ avgExit.n = 0 THEN RatZero
                  ELSE RatDiv(RatAdd(RatMul(MovePct(avgExit, avgEntry), RatOfInt(exitedQty)),
                                     RatMul(MovePct(RatOfInt(cmp), avgEntry), RatOfInt(openQty))),
                              RatOfInt(totalQty)))
            ELSE RatZero
    IN IF avgEntry.n = 0 THEN RatZero
       ELSE IF totalQty = 0 THEN RatZero
       ELSE IF side = "Sell" THEN RatNeg(movePercentage) ELSE movePercentage

\* calcRewardRisk(target, entry, sl, positionStatus, avgExit, openQty, exitedQty,
\* buySell): target and avgExit are fractions, entry and sl integers
calcRewardRisk(target, entry, sl, positionStatus, avgExit, openQty, exitedQty, side) ==
    LET totalQty == openQty + exitedQty
        risk == Abs(entry - sl)
        realizedReward == IF side = "Buy" THEN RatSub(avgExit, RatOfInt(entry))
                          ELSE RatSub(RatOfInt(entry), avgExit)
        potentialReward == IF side = "Buy" THEN RatSub(target, RatOfInt(entry))
                           ELSE RatSub(RatOfInt(entry), target)
        reward ==
            IF positionStatus = "Open" THEN potentialReward
            ELSE IF positionStatus = "Closed" THEN realizedReward
            ELSE IF positionStatus = "Partial"
            THEN RatDiv(RatAdd(RatMul(realizedReward, RatOfInt(exitedQty)),
                               RatMul(potentialReward, RatOfInt(openQty))),
                        RatOfInt(totalQty))
            ELSE RatZero
    IN IF entry = 0 \/ sl = 0 THEN RatZero
       ELSE IF totalQty = 0 THEN RatZero
       ELSE IF risk = 0 THEN RatZero
       ELSE RatAbs(RatDiv(reward, RatOfInt(risk)))

\* a date string that is not empty and that new Date() cannot parse
BadDate == [y |-> -1, m |-> 0, d |-> 0]
\* !isNaN(new Date(s).getTime())
Parses(date) == date # NoDate /\ date # BadDate

\* calculateWeightedHoldingDays: a leg is skipped when its entry date is missing
\* or does not parse, or when its exit date is given and does not parse; a leg
\* without an exit date runs to today
calculateWeightedHoldingDays(legs, now) ==
    LET counted == FilterSeq(legs, [i \in 1..Len(legs) |->
                       /\ Parses(legs[i].entryDate)
                       /\ legs[i].exitDate # BadDate])
        DaysHeld(leg) ==
            Max(1, GetTime(IF leg.exitDate # NoDate THEN leg.exitDate ELSE now)
                       - GetTime(leg.entryDate))
        totalDays == SumSeq([k \in 1..Len(counted) |->
                                DaysHeld(counted[k]) * counted[k].quantity])
        totalQuantity == SumSeq([k \in 1..Len(counted) |-> counted[k].quantity])
    IN IF totalQuantity > 0
       THEN (2 * totalDays + totalQuantity) \div (2 * totalQuantity)   \* Math.round
       ELSE 0

\* the loop of calcHoldingDays that hands the sorted exits to the legs in order.
\* remainingExits holds the caller's exit objects (at: the place of the object in
\* the caller's list) and exits is the caller's list, whose objects the loop
\* writes to (exit.qty -= exitQty); the outcome is [legs, exits]
RECURSIVE DistributeExits(_, _, _, _)
DistributeExits(legs, remainingExits, exits, done) ==
    IF legs = <<>> \/ remainingExits = <<>> THEN [legs |-> done \o legs, exits |-> exits]
    ELSE LET leg == Head(legs)
             exit == Head(remainingExits)
             exitQty == Min(leg.quantity, exit.qty)
             left == exit.qty - exitQty
             rest == IF left <= 0 THEN Tail(remainingExits)
                     ELSE <<[exit EXCEPT !.qty = left]>> \o Tail(remainingExits)
         IN DistributeExits(Tail(legs), rest, [exits EXCEPT ![exit.at].qty = left],
                            Append(done, [leg EXCEPT !.exitDate = exit.date]))

\* the body of calcHoldingDays up to the call of calculateWeightedHoldingDays: the
\* legs built (the first with quantity 1, the base quantity) and the caller's
\* exitDates as the call leaves them
HoldingLegs(entryDate, exitDate, pyramidDates, exitDates) ==
    LET counted == FilterSeq(pyramidDates,
                             [i \in 1..Len(pyramidDates) |-> pyramidDates[i].date # NoDate])
        tradeLegs ==
            <<[entryDate |-> entryDate, exitDate |-> exitDate,
               quantity |-> 1]>>
            \o [k \in 1..Len(counted) |->
                   [entryDate |-> counted[k].date, exitDate |-> exitDate,
                    quantity |-> IF counted[k].qty # 0 THEN counted[k].qty ELSE 1]]
        tagged == [i \in 1..Len(exitDates) |->
                      [date |-> exitDates[i].date, qty |-> exitDates[i].qty, at |-> i]]
        \* a comparator result of NaN counts as 0
        sortedExits == StableSort(tagged,
            [i \in 1..Len(exitDates) |-> [j \in 1..Len(exitDates) |->
                IF Parses(exitDates[i].date) /\ Parses(exitDates[j].date)
                THEN GetTime(exitDates[i].date) - GetTime(exitDates[j].date)
                ELSE 0]])
    IN DistributeExits(tradeLegs, sortedExits, exitDates, <<>>)

\* the caller's exitDates after calcHoldingDays(entryDate, exitDate, pyramidDates,
\* exitDates) has returned
ExitDatesAfterHoldingDays(entryDate, exitDate, pyramidDates, exitDates) ==
    IF entryDate = NoDate THEN exitDates
    ELSE HoldingLegs(entryDate, exitDate, pyramidDates, exitDates).exits

\* calcHoldingDays(entryDate, exitDate, pyramidDates, exitDates): the value
\* returned; nothing in the try block throws
calcHoldingDays(entryDate, exitDate, pyramidDates, exitDates, now) ==
    IF entryDate = NoDate THEN 0
    ELSE calculateWeightedHoldingDays(
             HoldingLegs(entryDate, exitDate, pyramidDates, exitDates).legs, now)

calcRealisedAmount(exitedQty, avgExit) == RatMul(RatOfInt(exitedQty), avgExit)

\* portfolioValue ? (plRs / portfolioValue) * 100 : 0
calcPFImpact(plRs, portfolioValue) ==
    IF portfolioValue # 0 THEN Rat(plRs * 100, portfolioValue) ELSE RatZero

\* the sum of a sequence of fractions
RECURSIVE RatSum(_)
RatSum(s) == IF s = <<>> THEN RatZero ELSE RatAdd(Head(s), RatSum(Tail(s)))

\* a stop that takes the stop-loss before the trailing stop
EffectiveStopLossFirst(sl, tsl) ==
    IF sl > 0 THEN sl ELSE IF tsl > 0 THEN tsl ELSE 0

\* the stop of calcTradeOpenHeat: the trailing stop when it is > 0, else the
\* stop-loss when it is > 0, else 0
EffectiveStop(sl, tsl) ==
    IF tsl > 0 /\ sl > 0 THEN tsl
    ELSE IF tsl > 0 THEN tsl
    ELSE IF sl > 0 THEN sl
    ELSE 0

\* trade.avgEntry || trade.entry || 0
HeatEntryPrice(trade) ==
    IF trade.avgEntry.n # 0 THEN trade.avgEntry ELSE RatOfInt(trade.entry)

\* the size calcTradeOpenHeat divides by: the value of getPortfolioSize(month, year)
\* when a function is passed (lookup = Some(function)), else defaultPortfolioSize
EffectivePortfolioSize(trade, defaultPortfolioSize, lookup) ==
    IF lookup # Null
    THEN ValueOf(lookup)[<<MonthShort(trade.date), FullYear(trade.date)>>]
    ELSE defaultPortfolioSize

\* a heat that takes the distance of the stop from the entry on either side
calcTradeOpenHeatEitherSide(trade, defaultPortfolioSize, lookup) ==
    LET effectivePortfolioSize == EffectivePortfolioSize(trade, defaultPortfolioSize, lookup)
        entryPrice == HeatEntryPrice(trade)
        stop == EffectiveStop(trade.sl, trade.tsl)
        risk == RatMul(RatAbs(RatSub(entryPrice, RatOfInt(stop))), RatOfInt(trade.openQty))
    IN IF entryPrice.n = 0 \/ stop = 0 \/ trade.openQty = 0 THEN RatZero
       ELSE IF effectivePortfolioSize > 0
       THEN RatMul(RatDiv(risk, RatOfInt(effectivePortfolioSize)), RatOfInt(100))
       ELSE RatZero

\* calcTradeOpenHeat(trade, defaultPortfolioSize, getPortfolioSize)
calcTradeOpenHeat(trade, defaultPortfolioSize, lookup) ==
    LET effectivePortfolioSize == EffectivePortfolioSize(trade, defaultPortfolioSize, lookup)
        entryPrice == HeatEntryPrice(trade)
        qty == trade.openQty
        stop == EffectiveStop(trade.sl, trade.tsl)
        risk == RatMul(RatSub(entryPrice, RatOfInt(stop)), RatOfInt(qty))
    IN IF entryPrice.n = 0 \/ stop = 0 \/ qty = 0 THEN RatZero
       ELSE IF RatLeq(entryPrice, RatOfInt(stop)) THEN RatZero
       ELSE IF effectivePortfolioSize > 0
       THEN RatMul(RatDiv(IF risk.n > 0 THEN risk ELSE RatZero,
                          RatOfInt(effectivePortfolioSize)),
                   RatOfInt(100))
       ELSE RatZero

\* a total over the trades of status Open alone
calcOpenHeatOpenOnly(trs, portfolioSize, lookup) ==
    IF Len(trs) = 0 THEN RatZero
    ELSE LET open == FilterSeq(trs, [i \in 1..Len(trs) |-> trs[i].positionStatus = "Open"])
         IN RatSum([k \in 1..Len(open) |-> calcTradeOpenHeat(open[k], portfolioSize, lookup)])

\* calcOpenHeat(trades, portfolioSize, getPortfolioSize)
calcOpenHeat(trs, portfolioSize, lookup) ==
    IF Len(trs) = 0 THEN RatZero
    ELSE LET open == FilterSeq(trs, [i \in 1..Len(trs) |->
                                       \/ trs[i].positionStatus = "Open"
                                       \/ trs[i].positionStatus = "Partial"])
         IN RatSum([k \in 1..Len(open) |-> calcTradeOpenHeat(open[k], portfolioSize, lookup)])

\* ---------------------------------------------------------------- XIRR
\* A Date of the XIRR functions is its whole number of days from the first day
\* the model uses.  Math.pow(1 + rate, yearFraction) is a fraction only for a
\* whole yearFraction: the flows of the model lie whole years of 365 days after
\* the first date, and none before it.
EPSILON == [n |-> 1, d |-> 10000000]
MAX_ITERATIONS == 100
\* the default of the parameter guess
DefaultGuess == [n |-> 1, d |-> 10]

\* |x| < EPSILON, without a product of large numbers
BelowEpsilon(x) == x.n = 0 \/ (x.d - 1) \div Abs(x.n) >= EPSILON.d

\* Math.pow(x, k) for a whole k >= 0
RECURSIVE RatPow(_, _)
RatPow(x, k) == IF k = 0 THEN RatOfInt(1) ELSE RatMul(x, RatPow(x, k - 1))

\* daysToYears((dates[i].getTime() - dates[0].getTime()) / (1000 * 60 * 60 * 24))
YearFraction(dates, i) == (dates[i] - dates[1]) \div 365

\* a net present value that does not discount the flows
calculateNPVUndiscounted(rate, dates, cashFlows) ==
    RatSum([i \in 1..Len(cashFlows) |-> RatOfInt(cashFlows[i])])

\* calculateNPV(rate, dates, cashFlows)
calculateNPV(rate, dates, cashFlows) ==
    RatSum([i \in 1..Len(cashFlows) |->
               RatDiv(RatOfInt(cashFlows[i]),
                      RatPow(RatAdd(RatOfInt(1), rate), YearFraction(dates, i)))])

\* the derivative of the NPV computed in the loop of calculateXIRR
NPVDerivative(rate, dates, cashFlows) ==
    RatSum([j \in 1..Len(cashFlows) |->
               RatNeg(RatDiv(RatOfInt(YearFraction(dates, j) * cashFlows[j]),
                             RatPow(RatAdd(RatOfInt(1), rate), YearFraction(dates, j) + 1)))])

\* a test of the signs that takes a flow of 0 for both a positive and a negative one
HasBothSignsNonStrict(cashFlows) ==
    /\ \E i \in 1..Len(cashFlows) : cashFlows[i] >= 0
    /\ \E i \in 1..Len(cashFlows) : cashFlows[i] <= 0

\* hasPositive && hasNegative
HasBothSigns(cashFlows) ==
    /\ \E i \in 1..Len(cashFlows) : cashFlows[i] > 0
    /\ \E i \in 1..Len(cashFlows) : cashFlows[i] < 0

\* the checks of calculateXIRR before the loop: TRUE when the loop is entered
ValidXirrInputs(dates, cashFlows) ==
    /\ ~(Len(dates) # Len(cashFlows) \/ Len(dates) < 2)
    /\ HasBothSigns(cashFlows)

\* one pass of the loop body of calculateXIRR from the state [rate, i]: it
\* returns a rate or goes on with the new rate; after the last pass the rate is
\* returned
NewtonPass(dates, cashFlows, rate, i) ==
    LET npv == calculateNPV(rate, dates, cashFlows)
        derivative == NPVDerivative(rate, dates, cashFlows)
        newRate == RatSub(rate, RatDiv(npv, derivative))
    IN IF BelowEpsilon(npv) THEN [fn |-> "returned", value |-> rate, i |-> i]
       ELSE IF BelowEpsilon(RatSub(newRate, rate))
       THEN [fn |-> "returned", value |-> newRate, i |-> i]
       ELSE IF i + 1 >= MAX_ITERATIONS THEN [fn |-> "returned", value |-> newRate, i |-> i + 1]
       ELSE [fn |-> "running", value |-> newRate, i |-> i + 1]

\* the flows calcXIRR builds: the start as -startingCapital, the capital
\* changes, the end as endingCapital, sorted by date
XirrFlows(a) ==
    LET allFlows == <<[date |-> a.startDate, amount |-> -a.startingCapital]>>
                    \o a.capitalChanges
                    \o <<[date |-> a.endDate, amount |-> a.endingCapital]>>
    IN StableSort(allFlows, [i \in 1..Len(allFlows) |-> [j \in 1..Len(allFlows) |->
                                allFlows[i].date - allFlows[j].date]])

\* ---------------------------------------------------------------- recalculation orchestrator
DefaultPortfolioSize == 100000

\* String.prototype.localeCompare on the trade numbers the model uses (digit
\* strings compare character by character: "10" comes before "2")
TradeNoOrder == <<"", "1", "10", "2", "3">>
TradeNoCompare(a, b) ==
    FindIndex([i \in 1..Len(TradeNoOrder) |-> TradeNoOrder[i] = a])
        - FindIndex([i \in 1..Len(TradeNoOrder) |-> TradeNoOrder[i] = b])

\* String.prototype.toUpperCase on the names the model uses
ToUpperCase(name) ==
    CASE name = "abc" -> "ABC"
      [] name = "Abc" -> "ABC"
      [] OTHER -> name

\* a comparator that goes on to the trade number when the dates are equal
CompareTradesTieByTradeNo(a, b) ==
    IF a.date # NoDate /\ b.date # NoDate /\ GetTime(a.date) # GetTime(b.date)
    THEN GetTime(a.date) - GetTime(b.date)
    ELSE TradeNoCompare(a.tradeNo, b.tradeNo)

\* the comparator of the sort: the difference of the dates when both trades have
\* one, the comparison of the trade numbers only otherwise
CompareTrades(a, b) ==
    IF a.date # NoDate /\ b.date # NoDate
    THEN GetTime(a.date) - GetTime(b.date)
    ELSE TradeNoCompare(a.tradeNo, b.tradeNo)

\* the lots kept by .filter(e => e.qty > 0 && e.price > 0)
ValidLots(lots) ==
    FilterSeq(lots, [i \in 1..Len(lots) |-> lots[i].qty > 0 /\ lots[i].price > 0])

EntryLotsOf(trade) ==
    ValidLots(<<[price |-> trade.entry, qty |-> trade.initialQty],
                [price |-> trade.pyramid1Price, qty |-> trade.pyramid1Qty],
                [price |-> trade.pyramid2Price, qty |-> trade.pyramid2Qty]>>)

ExitLotsOf(trade) ==
    ValidLots(<<[price |-> trade.exit1Price, qty |-> trade.exit1Qty],
                [price |-> trade.exit2Price, qty |-> trade.exit2Qty],
                [price |-> trade.exit3Price, qty |-> trade.exit3Qty]>>)

\* an open quantity that is left as computed
FinalOpenQtyUnclamped(openQty) == openQty

\* finalOpenQty = Math.max(0, openQty)
FinalOpenQty(openQty) == Max(0, openQty)

\* a running total that is overwritten instead of added to
RunningCummPfOverwritten(runningCummPf, pfImpact) == pfImpact

\* runningCummPf += pfImpact
RunningCummPf(runningCummPf, pfImpact) == RatAdd(runningCummPf, pfImpact)

\* the trade-month portfolio size: 100000 unless the trade has a date; the value
\* looked up, or 100000 when it is 0 or the lookup throws.  The function passed as
\* getTruePortfolioSize is sizeOf: sizeOf[<<month, year>>] is the outcome of its call
TradePortfolioSize(trade, sizeOf) ==
    IF trade.date = NoDate THEN DefaultPortfolioSize
    ELSE LET r == sizeOf[<<MonthShort(trade.date), FullYear(trade.date)>>]
         IN IF r.threw THEN DefaultPortfolioSize
            ELSE IF r.value # 0 THEN r.value ELSE DefaultPortfolioSize

\* the fields computed for one trade in the body of sorted.map, save cummPf
\* (the value of calcRewardRisk is computed there and not used)
DerivedFields(trade, sizeOf, now) ==
    LET allEntries == EntryLotsOf(trade)
        avgEntry == calcAvgEntry(allEntries)
        totalInitialQty == SumSeq([k \in 1..Len(allEntries) |-> allEntries[k].qty])
        positionSize == calcPositionSize(avgEntry, totalInitialQty)
        tradePortfolioSize == TradePortfolioSize(trade, sizeOf)
        allExits == ExitLotsOf(trade)
        exitedQty == SumSeq([k \in 1..Len(allExits) |-> allExits[k].qty])
        openQty == totalInitialQty - exitedQty
        avgExitPrice == calcAvgExitPrice(allExits)
        pyramids == <<[date |-> trade.pyramid1Date, qty |-> trade.pyramid1Qty],
                      [date |-> trade.pyramid2Date, qty |-> trade.pyramid2Qty]>>
        pyramidDates ==
            FilterSeq(pyramids, [i \in 1..2 |-> pyramids[i].date # NoDate /\ pyramids[i].qty # 0])
        exitLegs == <<[date |-> trade.exit1Date, qty |-> trade.exit1Qty],
                      [date |-> trade.exit2Date, qty |-> trade.exit2Qty],
                      [date |-> trade.exit3Date, qty |-> trade.exit3Qty]>>
        exitDatesForHolding ==
            FilterSeq(exitLegs, [i \in 1..3 |-> exitLegs[i].date # NoDate /\ exitLegs[i].qty # 0])
        givenExitDates ==
            FilterSeq(<<trade.exit1Date, trade.exit2Date, trade.exit3Date>>,
                      [i \in 1..3 |-> exitLegs[i].date # NoDate])
        validExitDates ==
            StableSort(givenExitDates,
                [i \in 1..Len(givenExitDates) |-> [j \in 1..Len(givenExitDates) |->
                    GetTime(givenExitDates[i]) - GetTime(givenExitDates[j])]])
        primaryExitDateForHolding ==
            IF Len(allExits) > 0 /\ Len(validExitDates) > 0 THEN validExitDates[1]
            ELSE IF trade.positionStatus # "Open" /\ Len(allExits) > 0 THEN trade.date
            ELSE NoDate
        plRs == IF exitedQty > 0
                THEN calcRealizedPL_FIFO(allEntries, allExits, trade.buySell).totalPL
                ELSE 0
    IN [name |-> ToUpperCase(trade.name),
        avgEntry |-> avgEntry,
        positionSize |-> positionSize,
        allocation |-> calcAllocation(positionSize, tradePortfolioSize),
        slPercent |-> calcSLPercent(trade.sl, trade.entry),
        openQty |-> FinalOpenQty(openQty),
        exitedQty |-> exitedQty,
        avgExitPrice |-> avgExitPrice,
        stockMove |-> calcStockMove(avgEntry, avgExitPrice, trade.cmp, openQty, exitedQty,
                                    trade.positionStatus, trade.buySell),
        holdingDays |-> calcHoldingDays(trade.date, primaryExitDateForHolding,
                                        pyramidDates, exitDatesForHolding, now),
        realisedAmount |-> calcRealisedAmount(exitedQty, avgExitPrice),
        plRs |-> Some(plRs),
        pfImpact |-> calcPFImpact(plRs, tradePortfolioSize)]

\* an object that spreads the whole trade, a stored openHeat included
RewrittenWithOpenHeat(trade, derived, cummPf) ==
    [k \in (DOMAIN trade) \cup (DOMAIN derived) \cup {"cummPf"} |->
        IF k = "cummPf" THEN cummPf
        ELSE IF k \in DOMAIN derived THEN derived[k]
        ELSE trade[k]]

\* { ...restOfTrade, name, avgEntry, ..., cummPf }: the stored fields save openHeat,
\* overlaid with the computed ones
Rewritten(trade, derived, cummPf) ==
    [k \in ((DOMAIN trade) \ {"openHeat"}) \cup (DOMAIN derived) \cup {"cummPf"} |->
        IF k = "cummPf" THEN cummPf
        ELSE IF k \in DOMAIN derived THEN derived[k]
        ELSE trade[k]]

\* recalculateAllTrades(trades, getTruePortfolioSize)
recalculateAllTrades(trs, sizeOf, now) ==
    LET sorted == StableSort(trs, [i \in 1..Len(trs) |-> [j \in 1..Len(trs) |->
                                     CompareTrades(trs[i], trs[j])]])
        derived == [i \in 1..Len(sorted) |-> DerivedFields(sorted[i], sizeOf, now)]
        runningCummPf[i \in 0..Len(sorted)] ==
            IF i = 0 THEN RatZero ELSE RunningCummPf(runningCummPf[i - 1], derived[i].pfImpact)
    IN [i \in 1..Len(sorted) |-> Rewritten(sorted[i], derived[i], runningCummPf[i])]

\* the lookup useTrades passes to recalculateAllTrades: the valuator bound to the
\* trade list of the hook
getPortfolioSize(month, year, trs) == getTruePortfolioSize(month, year, trs)

\* the constant rewardRisk of the body of sorted.map: the value of
\* calcRewardRisk(trade.cmp || avgExitPrice || trade.entry, ...), which the
\* object returned does not hold
RewardRiskComputed(trade) ==
    LET allEntries == EntryLotsOf(trade)
        allExits == ExitLotsOf(trade)
        totalInitialQty == SumSeq([k \in 1..Len(allEntries) |-> allEntries[k].qty])
        exitedQty == SumSeq([k \in 1..Len(allExits) |-> allExits[k].qty])
        openQty == totalInitialQty - exitedQty
        avgExitPrice == calcAvgExitPrice(allExits)
        target == IF trade.cmp # 0 THEN RatOfInt(trade.cmp)
                  ELSE IF avgExitPrice.n # 0 THEN avgExitPrice
                  ELSE RatOfInt(trade.entry)
    IN calcRewardRisk(target, trade.entry, trade.sl, trade.positionStatus, avgExitPrice,
                      openQty, exitedQty, trade.buySell)

\* ---------------------------------------------------------------- inputs of the ledger specification
Years == {2024, 2025}
YearAmounts == {1000}
OverrideTokens == {"Jan", "Mar", "March"}
OverrideAmounts == {0, 500}
\* the capital changes a user may enter: [date, amount, type]
ChangeInputs ==
    { [date |-> Date(2024, 2, 10), amount |-> 200, type |-> "deposit"],
      [date |-> Date(2024, 3, 5), amount |-> 300, type |-> "withdrawal"] }
QueryTokens == {"December", "Foo"}
AllTokens == {months[i] : i \in 1..12} \cup DOMAIN monthMap \cup {"Foo", "Sept"}

\* trade lists handed to the valuator: none; two closed trades carrying plRs, the
\* first entered in January and exited in February, and a trade without plRs
ValuatorTradeLists ==
    { <<>>,
      << [BlankTrade EXCEPT !.id = "t1", !.tradeNo = "1", !.date = Date(2024, 1, 20),
              !.entry = 100, !.initialQty = 10, !.exit1Price = 125, !.exit1Qty = 10,
              !.exit1Date = Date(2024, 2, 5), !.positionStatus = "Closed",
              !.avgEntry = 100, !.exitedQty = 10, !.avgExitPrice = 125, !.plRs = Some(250)],
         [BlankTrade EXCEPT !.id = "t2", !.tradeNo = "2", !.date = Date(2024, 3, 3),
              !.entry = 50, !.initialQty = 4, !.exit1Price = 40, !.exit1Qty = 4,
              !.exit1Date = Date(2024, 3, 9), !.positionStatus = "Closed",
              !.avgEntry = 50, !.exitedQty = 4, !.avgExitPrice = 40, !.plRs = Some(-40)],
         [BlankTrade EXCEPT !.id = "t3", !.tradeNo = "3", !.date = Date(2024, 3, 4),
              !.buySell = "Sell", !.entry = 100, !.initialQty = 10, !.exit1Price = 80,
              !.exit1Qty = 10, !.exit1Date = Date(2024, 3, 20), !.positionStatus = "Closed",
              !.exitedQty = 10, !.avgExitPrice = 80] >> }

\* ---------------------------------------------------------------- ledger specification
Init ==
    /\ yearlyStartingCapitals = <<>>
    /\ monthlyStartingCapitalOverrides = <<>>
    /\ capitalChanges = <<>>
    /\ trades \in ValuatorTradeLists
    /\ lastCall = NoCall
    /\ fifoEntries = <<>> /\ fifoExits = <<>> /\ fifoSide = "Buy" /\ fifoResult = NoCall
    /\ rawTrades = <<>> /\ recalculated = NoCall /\ recalculatedAgain = NoCall /\ today = NoDate
    /\ CalcIdle /\ AuxIdle

SetYearlyStartingCapital ==
    /\ lastCall = NoCall
    /\ \E year \in Years, amount \in YearAmounts :
        /\ yearlyStartingCapitals' = YearlyAfterSet(yearlyStartingCapitals, year, amount)
        /\ lastCall' = NoCall
        /\ UNCHANGED <<monthlyStartingCapitalOverrides, capitalChanges, trades, fifoVars, orchVars, calcVars, auxVars>>

SetMonthlyStartingCapitalOverride ==
    /\ lastCall = NoCall
    /\ \E month \in OverrideTokens, year \in Years, amount \in OverrideAmounts :
        LET next == OverridesAfterSet(monthlyStartingCapitalOverrides, month, year, amount)
        IN /\ Len(next) <= MaxOverrides
           /\ monthlyStartingCapitalOverrides' = next
           /\ lastCall' = NoCall
           /\ UNCHANGED <<yearlyStartingCapitals, capitalChanges, trades, fifoVars, orchVars, calcVars, auxVars>>

RemoveMonthlyStartingCapitalOverride ==
    /\ lastCall = NoCall
    /\ \E month \in OverrideTokens, year \in Years :
        /\ monthlyStartingCapitalOverrides' =
               OverridesAfterRemove(monthlyStartingCapitalOverrides, month, year)
        /\ lastCall' = NoCall
        /\ UNCHANGED <<yearlyStartingCapitals, capitalChanges, trades, fifoVars, orchVars, calcVars, auxVars>>

\* the id `capital_${time}_${random}` is a fresh one: the least id not in use
FreshChangeId == CHOOSE i \in 1..(Len(capitalChanges) + 1) :
                    /\ \A k \in 1..Len(capitalChanges) : capitalChanges[k].id # i
                    /\ \A j \in 1..(i - 1) : \E k \in 1..Len(capitalChanges) : capitalChanges[k].id = j

AddCapitalChange ==
    /\ lastCall = NoCall
    /\ \E change \in ChangeInputs :
        /\ Len(capitalChanges) < MaxChanges
        /\ capitalChanges' = Append(capitalChanges,
               [id |-> FreshChangeId, date |-> change.date, amount |-> change.amount,
                type |-> change.type])
        /\ lastCall' = NoCall
        /\ UNCHANGED <<yearlyStartingCapitals, monthlyStartingCapitalOverrides, trades, fifoVars, orchVars, calcVars, auxVars>>

UpdateCapitalChange ==
    /\ lastCall = NoCall
    /\ \E k \in 1..Len(capitalChanges), change \in ChangeInputs :
        LET updatedChange == [id |-> capitalChanges[k].id, date |-> change.date,
                              amount |-> change.amount, type |-> change.type]
        IN /\ capitalChanges' = [i \in 1..Len(capitalChanges) |->
                                    IF capitalChanges[i].id = updatedChange.id
                                    THEN updatedChange ELSE capitalChanges[i]]
           /\ lastCall' = NoCall
           /\ UNCHANGED <<yearlyStartingCapitals, monthlyStartingCapitalOverrides, trades, fifoVars, orchVars, calcVars, auxVars>>

DeleteCapitalChange ==
    /\ lastCall = NoCall
    /\ \E k \in 1..Len(capitalChanges) :
        /\ capitalChanges' = FilterSeq(capitalChanges,
               [i \in 1..Len(capitalChanges) |-> capitalChanges[i].id # capitalChanges[k].id])
        /\ lastCall' = NoCall
        /\ UNCHANGED <<yearlyStartingCapitals, monthlyStartingCapitalOverrides, trades, fifoVars, orchVars, calcVars, auxVars>>

\* a caller asks for the snapshot of (month, year)
GetMonthlyTruePortfolio ==
    /\ lastCall = NoCall
    /\ \E month \in QueryTokens, year \in Years :
        LET r == getMonthlyTruePortfolio(month, year, trades)
        IN /\ lastCall' = [fn |-> "getMonthlyTruePortfolio", month |-> month, year |-> year,
                           threw |-> r.threw, value |-> r.value]
           /\ UNCHANGED <<ledgerVars, trades, fifoVars, orchVars, calcVars, auxVars>>

\* a caller asks for the portfolio size of (month, year)
GetTruePortfolioSize ==
    /\ lastCall = NoCall
    /\ \E month \in QueryTokens, year \in Years :
        LET r == getTruePortfolioSize(month, year, trades)
        IN /\ lastCall' = [fn |-> "getTruePortfolioSize", month |-> month, year |-> year,
                           threw |-> r.threw, value |-> r.value]
           /\ UNCHANGED <<ledgerVars, trades, fifoVars, orchVars, calcVars, auxVars>>

\* the caller has used the value returned to it
Return ==
    /\ lastCall # NoCall
    /\ lastCall' = NoCall
    /\ UNCHANGED <<ledgerVars, trades, fifoVars, orchVars, calcVars, auxVars>>

Next ==
    \/ SetYearlyStartingCapital
    \/ SetMonthlyStartingCapitalOverride
    \/ RemoveMonthlyStartingCapitalOverride
    \/ AddCapitalChange
    \/ UpdateCapitalChange
    \/ DeleteCapitalChange
    \/ GetMonthlyTruePortfolio
    \/ GetTruePortfolioSize
    \/ Return

Spec == Init /\ [][Next]_vars

\* ================================================================ claims on the valuator
\* valuate(month, year): the snapshot a caller gets for a valid month token
Valuate(month, year) == getMonthlyTruePortfolio(month, year, trades).value

ValidToken(tok) == MonthIndexOf(normalizeMonth(tok)) # 0
HasOverride(i, year) == \E k \in 1..Len(monthlyStartingCapitalOverrides) :
                            /\ monthlyStartingCapitalOverrides[k].month = months[i]
                            /\ monthlyStartingCapitalOverrides[k].year = year
OverrideAmount(i, year) ==
    LET k == CHOOSE k \in 1..Len(monthlyStartingCapitalOverrides) :
                 /\ monthlyStartingCapitalOverrides[k].month = months[i]
                 /\ monthlyStartingCapitalOverrides[k].year = year
    IN monthlyStartingCapitalOverrides[k].startingCapital
\* deposits minus withdrawals dated in calendar month i of year
NetCapitalChange(i, year) ==
    SumSeq([k \in 1..Len(capitalChanges) |->
               IF capitalChanges[k].date.m = i /\ capitalChanges[k].date.y = year
               THEN (IF capitalChanges[k].type = "deposit" THEN capitalChanges[k].amount
                     ELSE -capitalChanges[k].amount)
               ELSE 0])
\* realized P&L of one trade as the valuator reads it: the stored plRs, else
\* (avgExit - avgEntry) * exitedQty, signed by side
RealizedPL(t) ==
    IF t.plRs # Null THEN ValueOf(t.plRs)
    ELSE IF t.exitedQty > 0 /\ t.avgExitPrice > 0 /\ (t.avgEntry > 0 \/ t.entry > 0)
    THEN (IF t.buySell = "Buy" THEN 1 ELSE -1)
         * (t.avgExitPrice - (IF t.avgEntry # 0 THEN t.avgEntry ELSE t.entry)) * t.exitedQty
    ELSE 0
\* sum of the realized P&L of the trades whose trade date lies in month i of year
PLByTradeDate(i, year) ==
    SumSeq([k \in 1..Len(trades) |->
               IF trades[k].date.m = i /\ trades[k].date.y = year THEN RealizedPL(trades[k]) ELSE 0])
\* sum of the realized P&L of the trades whose exit lies in month i of year
PLByExitDate(i, year) ==
    SumSeq([k \in 1..Len(trades) |->
               IF trades[k].exit1Date.m = i /\ trades[k].exit1Date.y = year
               THEN RealizedPL(trades[k]) ELSE 0])
\* a caller has just valued a month of year
ValuatedQuery(year) ==
    /\ lastCall.fn = "getMonthlyTruePortfolio"
    /\ lastCall.year = year
    /\ ~lastCall.threw
\* the snapshots valuate returns for Jan..Dec of year
YearSnapshots(year) == [i \in 1..12 |-> Valuate(months[i], year)]

QuietYear(year) ==
    /\ \A i \in 1..12 : ~HasOverride(i, year)
    /\ \A k \in 1..Len(capitalChanges) : capitalChanges[k].date.y # year
    /\ \A i \in 1..12 : PLByTradeDate(i, year) = 0
C2_Chaining ==
    \A year \in Years :
        (ValuatedQuery(year) /\ QuietYear(year)) =>
            /\ \A i \in 1..12 :
                   Valuate(months[i], year).finalCapital = getYearlyStartingCapital(year)
            /\ lastCall.value.finalCapital = getYearlyStartingCapital(year)

\* December of a quiet year with a non-zero yearly starting capital has been valued
C2_Witness ==
    \E year \in Years :
        /\ QuietYear(year)
        /\ getYearlyStartingCapital(year) = 1000
        /\ ValuatedQuery(year)

\* C3: whenever an override exists for (month, year), January and an amount of 0
\* included, finalCapital = override + netCapitalChange(month, year) + pl(month, year),
\* whatever the previous month's final capital and the yearly starting capital are;
\* the month may be named by its short or its full name.
C3_OverrideSemantics ==
    \A year \in Years :
        ValuatedQuery(year) =>
            \A tok \in AllTokens :
                ValidToken(tok) =>
                    LET i == MonthIndexOf(normalizeMonth(tok))
                    IN HasOverride(i, year) =>
                           /\ getMonthlyStartingCapitalOverride(tok, year)
                                  = Some(OverrideAmount(i, year))
                           /\ Valuate(tok, year).finalCapital =
                                  OverrideAmount(i, year) + NetCapitalChange(i, year)
                                      + PLByTradeDate(i, year)

\* a year with a yearly starting capital and a January override of 0 has been valued
C3_Witness ==
    \E year \in Years :
        /\ HasOverride(1, year) /\ OverrideAmount(1, year) = 0
        /\ getYearlyStartingCapital(year) = 1000
        /\ ValuatedQuery(year)

EntryPrices == {100, 110}
ExitPrices == {90, 120}
LotQtys == {5, 10, 15}
LotSeqs(prices) ==
    UNION { [1..n -> [price : prices, qty : LotQtys]] : n \in 0..MaxLots }

InitFifo ==
    /\ fifoEntries \in LotSeqs(EntryPrices)
    /\ fifoExits \in LotSeqs(ExitPrices)
    /\ fifoSide \in {"Buy", "Sell"}
    /\ fifoResult = NoCall
    /\ yearlyStartingCapitals = <<>>
    /\ monthlyStartingCapitalOverrides = <<>>
    /\ capitalChanges = <<>>
    /\ trades = <<>>
    /\ lastCall = NoCall
    /\ rawTrades = <<>> /\ recalculated = NoCall /\ recalculatedAgain = NoCall /\ today = NoDate
    /\ CalcIdle /\ AuxIdle

CalcRealizedPL ==
    /\ fifoResult = NoCall
    /\ LET r == calcRealizedPL_FIFO(fifoEntries, fifoExits, fifoSide)
       IN fifoResult' = [fn |-> "calcRealizedPL_FIFO", totalPL |-> r.totalPL,
                         matched |-> r.matched]
    /\ UNCHANGED <<fifoEntries, fifoExits, fifoSide, ledgerVars, trades, lastCall, orchVars, calcVars, auxVars>>

NextFifo == CalcRealizedPL

SpecFifo == InitFifo /\ [][NextFifo]_vars

FifoDone == fifoResult.fn = "calcRealizedPL_FIFO"
SumQty(lots) == SumSeq([k \in 1..Len(lots) |-> lots[k].qty])
\* the lots as a sequence of single shares, each at its lot's price, in lot order
RECURSIVE Units(_)
Units(lots) ==
    IF lots = <<>> THEN <<>>
    ELSE [k \in 1..Head(lots).qty |-> Head(lots).price] \o Units(Tail(lots))
\* the k-th share sold is matched with the k-th share bought
MatchedPiecesPL(entryLots, exitLots, side) ==
    LET eu == Units(entryLots)
        xu == Units(exitLots)
        n == Min(Len(eu), Len(xu))
    IN SumSeq([k \in 1..n |-> IF side = "Buy" THEN xu[k] - eu[k] ELSE eu[k] - xu[k]])
\* the exit lots cut off after `total` shares
RECURSIVE Truncate(_, _)
Truncate(lots, total) ==
    IF lots = <<>> \/ total <= 0 THEN <<>>
    ELSE IF Head(lots).qty <= total
         THEN <<Head(lots)>> \o Truncate(Tail(lots), total - Head(lots).qty)
         ELSE <<[Head(lots) EXCEPT !.qty = total]>>

SpecExampleEntries == <<[price |-> 100, qty |-> 10], [price |-> 110, qty |-> 10]>>
SpecExampleExits == <<[price |-> 120, qty |-> 15]>>

\* C6: calcRealizedPL_FIFO returns the sum over the matched pieces of q*(xp-ep) for
\* Buy and q*(ep-xp) for Sell, each exit lot being matched with the oldest entry
\* lot not yet consumed, in the order given (never by price); entries
\* [(100,10),(110,10)], exits [(120,15)], Buy give 250.
C6_FifoRealizedPL ==
    FifoDone =>
        /\ fifoResult.totalPL = MatchedPiecesPL(fifoEntries, fifoExits, fifoSide)
        /\ (fifoEntries = SpecExampleEntries /\ fifoExits = SpecExampleExits /\ fifoSide = "Buy")
               => fifoResult.totalPL = 250

\* the matcher has run on the example of the specification
C6_Witness ==
    /\ FifoDone
    /\ fifoEntries = SpecExampleEntries /\ fifoExits = SpecExampleExits /\ fifoSide = "Buy"
    /\ fifoResult.totalPL = 250

\* C7: the quantity matched never exceeds min(sum of entry quantities, sum of exit
\* quantities); exit quantity beyond the total entry quantity changes nothing: the
\* result is that of the same exits cut off at the total entry quantity.
C7_FifoMatchedBound ==
    FifoDone =>
        /\ fifoResult.matched <= Min(SumQty(fifoEntries), SumQty(fifoExits))
        /\ fifoResult.totalPL =
               calcRealizedPL_FIFO(fifoEntries, Truncate(fifoExits, SumQty(fifoEntries)),
                                   fifoSide).totalPL

\* the matcher has run on exits that exceed the entries, the excess in a lot of its own
C7_Witness ==
    /\ FifoDone
    /\ SumQty(fifoExits) > SumQty(fifoEntries)
    /\ Len(fifoEntries) > 0
    /\ Len(Truncate(fifoExits, SumQty(fifoEntries))) < Len(fifoExits)
    /\ fifoResult.matched = SumQty(fifoEntries)

\* ================================================================ orchestrator specification
\* stored fields laid over a trade record
Stored(trade, fields) ==
    [k \in (DOMAIN trade) \cup (DOMAIN fields) |->
        IF k \in DOMAIN fields THEN fields[k] ELSE trade[k]]

\* the raw shapes of a trade: a partial exit of a pyramided Buy, already
\* recalculated once; exits that exceed the entries; a closed Sell with a stored
\* openHeat; an open Buy; a Buy with an exit lot and a pyramid lot that are not valid
OrchShapes ==
    { [BlankTrade EXCEPT !.entry = 100, !.initialQty = 10, !.sl = 90, !.cmp = 130,
           !.pyramid1Price = 110, !.pyramid1Qty = 10, !.pyramid1Date = Date(2024, 2, 20),
           !.exit1Price = 120, !.exit1Qty = 15, !.exit1Date = Date(2024, 3, 10),
           !.positionStatus = "Partial", !.exitedQty = 15, !.avgExitPrice = 120,
           !.plRs = Some(250)],
      [BlankTrade EXCEPT !.entry = 100, !.initialQty = 10, !.sl = 95,
           !.exit1Price = 90, !.exit1Qty = 15, !.exit1Date = Date(2024, 3, 5),
           !.positionStatus = "Closed"],
      Stored([BlankTrade EXCEPT !.buySell = "Sell", !.entry = 100, !.initialQty = 10, !.sl = 104,
                  !.exit1Price = 90, !.exit1Qty = 10, !.exit1Date = Date(2024, 2, 25),
                  !.positionStatus = "Closed"],
             [openHeat |-> 7]),
      [BlankTrade EXCEPT !.entry = 50, !.initialQty = 4, !.cmp = 55],
      [BlankTrade EXCEPT !.entry = 100, !.initialQty = 10,
           !.pyramid2Qty = 5, !.pyramid2Date = Date(2024, 2, 12),
           !.exit1Qty = 5, !.exit1Date = Date(2024, 2, 15),
           !.exit2Price = 110, !.exit2Qty = 10, !.exit2Date = Date(2024, 2, 28),
           !.positionStatus = "Closed"] }
TradeDates == {Date(2024, 1, 15), Date(2024, 2, 10)}
TradeNos == {"10", "2"}
TradeIds == <<"t1", "t2", "t3", "t4">>
OrchLedgers == {<<>>, <<[year |-> 2024, startingCapital |-> 1000]>>}

\* The lists passed in: the k-th trade has the k-th id.  Either every trade has a
\* date or none has: on a list that mixes the two the comparator is not a
\* consistent one and the order Array.prototype.sort gives is implementation-defined.
InitOrch ==
    /\ \E n \in 0..MaxTrades, dated \in BOOLEAN :
          \E pick \in [1..n -> OrchShapes \X TradeDates \X TradeNos] :
              rawTrades = [k \in 1..n |->
                              [pick[k][1] EXCEPT !.id = TradeIds[k],
                                                 !.date = IF dated THEN pick[k][2] ELSE NoDate,
                                                 !.tradeNo = pick[k][3]]]
    /\ yearlyStartingCapitals \in OrchLedgers
    /\ today = Date(2024, 4, 1)
    /\ recalculated = NoCall
    /\ recalculatedAgain = NoCall
    /\ monthlyStartingCapitalOverrides = <<>>
    /\ capitalChanges = <<>>
    /\ trades = <<>>
    /\ lastCall = NoCall
    /\ fifoEntries = <<>> /\ fifoExits = <<>> /\ fifoSide = "Buy" /\ fifoResult = NoCall
    /\ CalcIdle /\ AuxIdle

Recalculate ==
    /\ recalculated = NoCall
    /\ recalculated' =
           [fn |-> "recalculateAllTrades",
            value |-> recalculateAllTrades(rawTrades,
                          [q \in {months[i] : i \in 1..12} \X Years |->
                              getPortfolioSize(q[1], q[2], rawTrades)],
                          today)]
    /\ UNCHANGED <<rawTrades, recalculatedAgain, today, ledgerVars, trades, lastCall, fifoVars, calcVars, auxVars>>

\* The effect that follows a change of the list: the list the hook now holds is
\* recalculated, the lookup being bound to that list
RecalculateAgain ==
    /\ recalculated # NoCall
    /\ recalculatedAgain = NoCall
    /\ recalculatedAgain' =
           [fn |-> "recalculateAllTrades",
            value |-> recalculateAllTrades(recalculated.value,
                          [q \in {months[i] : i \in 1..12} \X Years |->
                              getPortfolioSize(q[1], q[2], recalculated.value)],
                          today)]
    /\ UNCHANGED <<rawTrades, recalculated, today, ledgerVars, trades, lastCall, fifoVars, calcVars, auxVars>>

NextOrch == Recalculate \/ RecalculateAgain

SpecOrch == InitOrch /\ [][NextOrch]_vars

OrchDone == recalculated.fn = "recalculateAllTrades"
\* the sum of the valid entry-lot / exit-lot quantities, from the raw fields
LotQty(price, qty) == IF qty > 0 /\ price > 0 THEN qty ELSE 0
TotalEntryQty(t) ==
    LotQty(t.entry, t.initialQty) + LotQty(t.pyramid1Price, t.pyramid1Qty)
        + LotQty(t.pyramid2Price, t.pyramid2Qty)
TotalExitQty(t) ==
    LotQty(t.exit1Price, t.exit1Qty) + LotQty(t.exit2Price, t.exit2Qty)
        + LotQty(t.exit3Price, t.exit3Qty)

\* C8 as stated: every trade returned has openQty + exitedQty = totalEntryQty, the
\* trades whose exits exceed their entries included.
C8_QuantityInvariantAsStated ==
    OrchDone =>
        \A k \in 1..Len(recalculated.value) :
            LET t == recalculated.value[k]
            IN t.openQty + t.exitedQty = TotalEntryQty(t)

\* C8: every trade returned has exitedQty = the sum of its valid exit-lot
\* quantities and openQty + exitedQty = max(totalEntryQty, exitedQty), which is
\* totalEntryQty exactly when the exits do not exceed the entries.
C8_QuantityInvariant ==
    OrchDone =>
        \A k \in 1..Len(recalculated.value) :
            LET t == recalculated.value[k]
            IN /\ t.exitedQty = TotalExitQty(t)
               /\ t.openQty + t.exitedQty = Max(TotalEntryQty(t), t.exitedQty)
               /\ (t.openQty + t.exitedQty = TotalEntryQty(t)) <=> (t.exitedQty <= TotalEntryQty(t))

\* a trade has come back whose exits exceed its entries
C8_Witness ==
    /\ OrchDone
    /\ \E k \in 1..Len(recalculated.value) :
          LET t == recalculated.value[k]
          IN TotalExitQty(t) > TotalEntryQty(t) /\ TotalEntryQty(t) > 0 /\ t.openQty = 0

AllDated == \A k \in 1..Len(rawTrades) : rawTrades[k].date # NoDate
NoneDated == \A k \in 1..Len(rawTrades) : rawTrades[k].date = NoDate
InputPos(id) == CHOOSE k \in 1..Len(rawTrades) : rawTrades[k].id = id
SameTrades ==
    /\ Len(recalculated.value) = Len(rawTrades)
    /\ \A k \in 1..Len(rawTrades) :
          \E i \in 1..Len(recalculated.value) : recalculated.value[i].id = rawTrades[k].id

\* C9 as stated: the list returned is sorted by date ascending, and two trades
\* with equal dates appear in lexicographic order of their trade numbers.
C9_OrderingAsStated ==
    (OrchDone /\ AllDated) =>
        \A i, j \in 1..Len(recalculated.value) :
            i < j =>
                LET a == recalculated.value[i]
                    b == recalculated.value[j]
                IN /\ GetTime(a.date) <= GetTime(b.date)
                   /\ a.date = b.date => TradeNoCompare(a.tradeNo, b.tradeNo) <= 0

\* C9: when every trade has a date the list returned is sorted by date ascending
\* and two trades with equal dates keep the order they had in the list passed in;
\* the trade numbers are compared only between trades without a date.
C9_Ordering ==
    OrchDone =>
        /\ SameTrades
        /\ \A i, j \in 1..Len(recalculated.value) :
             i < j =>
                LET a == recalculated.value[i]
                    b == recalculated.value[j]
                IN /\ AllDated =>
                        /\ GetTime(a.date) <= GetTime(b.date)
                        /\ a.date = b.date => InputPos(a.id) < InputPos(b.id)
                   /\ NoneDated =>
                        /\ TradeNoCompare(a.tradeNo, b.tradeNo) <= 0
                        /\ a.tradeNo = b.tradeNo => InputPos(a.id) < InputPos(b.id)

\* two trades of one date have come back in the order they were passed in, the
\* trade number "2" before "10"
C9_Witness ==
    /\ OrchDone /\ AllDated
    /\ \E i, j \in 1..Len(recalculated.value) :
          LET a == recalculated.value[i]
              b == recalculated.value[j]
          IN /\ i < j /\ a.date = b.date
             /\ a.tradeNo = "2" /\ b.tradeNo = "10"
             /\ InputPos(a.id) < InputPos(b.id)

RECURSIVE ProdSeq(_)
ProdSeq(s) == IF s = <<>> THEN 1 ELSE Head(s) * ProdSeq(Tail(s))
\* the sum of pfImpact of the trades 1..k of the list returned, over one
\* common denominator
ImpactSum(k) ==
    LET out == recalculated.value
        den == ProdSeq([i \in 1..k |-> out[i].pfImpact.d])
    IN Rat(SumSeq([i \in 1..k |-> out[i].pfImpact.n * (den \div out[i].pfImpact.d)]), den)

\* C10: the cummPf of the k-th trade of the list returned is the sum of the
\* pfImpact of the trades 1..k of that list; it does not decrease along the list
\* when every pfImpact is >= 0.
C10_CummPfPrefixSum ==
    OrchDone =>
        LET out == recalculated.value
        IN /\ \A k \in 1..Len(out) : out[k].cummPf = ImpactSum(k)
           /\ (\A k \in 1..Len(out) : out[k].pfImpact.n >= 0) =>
                  \A k \in 1..(Len(out) - 1) : RatLeq(out[k].cummPf, out[k + 1].cummPf)

\* a list has come back with a gain followed by a loss, the running total of the
\* second trade being neither impact alone
C10_Witness ==
    /\ OrchDone
    /\ Len(recalculated.value) >= 2
    /\ recalculated.value[1].pfImpact.n > 0
    /\ recalculated.value[2].pfImpact.n < 0
    /\ recalculated.value[2].cummPf = RatAdd(recalculated.value[1].pfImpact,
                                             recalculated.value[2].pfImpact)
    /\ recalculated.value[2].cummPf # recalculated.value[2].pfImpact

AgainDone == recalculatedAgain.fn = "recalculateAllTrades"

\* C11: the list returned for the list that recalculateAllTrades returned is that
\* list: the same trades in the same order with identical fields, the lookup of
\* the portfolio size being bound each time to the list that is recalculated.
C11_Idempotence ==
    AgainDone => recalculatedAgain.value = recalculated.value

\* what the second run does keep: the order of the trades and every field but
\* allocation, pfImpact and cummPf
C11_SecondRunKeepsRawDerived ==
    AgainDone =>
        /\ Len(recalculatedAgain.value) = Len(recalculated.value)
        /\ \A k \in 1..Len(recalculated.value) :
              /\ DOMAIN recalculatedAgain.value[k] = DOMAIN recalculated.value[k]
              /\ \A f \in DOMAIN recalculated.value[k] \ {"allocation", "pfImpact", "cummPf"} :
                    recalculatedAgain.value[k][f] = recalculated.value[k][f]

\* a trade stored without plRs has been recalculated twice under a yearly
\* starting capital of 1000: its loss of 100 is -10 % of 1000 in the first list
\* and -100/9 % of 900 in the second
C11_Witness ==
    /\ AgainDone
    /\ Len(rawTrades) = 1 /\ rawTrades[1].plRs = Null
    /\ getYearlyStartingCapital(2024) = 1000
    /\ recalculated.value[1].plRs = Some(-100)
    /\ recalculated.value[1].pfImpact = Rat(-10, 1)
    /\ recalculatedAgain.value[1].pfImpact = Rat(-100, 9)

\* ================================================================ claims on the portfolio size of a trade
\* the size the valuator supplies for the trade month of a trade of rawTrades
ValuatorSizeFor(t) ==
    getPortfolioSize(MonthShort(t.date), FullYear(t.date), rawTrades).value

\* C13: every trade returned whose trade-month portfolio size, as the valuator
\* supplies it, is 0 has allocation 0 and pfImpact 0.
C13_ZeroPortfolioSize ==
    OrchDone =>
        \A k \in 1..Len(recalculated.value) :
            LET t == recalculated.value[k]
            IN (t.date # NoDate /\ ValuatorSizeFor(t) = 0) =>
                   (t.allocation = RatZero /\ t.pfImpact = RatZero)

\* what is returned for such a trade: the allocation and the pfImpact against 100000
C13_ZeroSizeReplaced ==
    OrchDone =>
        \A k \in 1..Len(recalculated.value) :
            LET t == recalculated.value[k]
            IN (t.date # NoDate /\ ValuatorSizeFor(t) = 0) =>
                   /\ t.allocation = calcAllocation(t.positionSize, DefaultPortfolioSize)
                   /\ t.pfImpact = calcPFImpact(ValueOf(t.plRs), DefaultPortfolioSize)

\* a trade of position size 1000 and realized loss 100 has come back for a month
\* of size 0 with allocation 1 % and pfImpact -0.1 %
C13_Witness ==
    /\ OrchDone
    /\ \E k \in 1..Len(recalculated.value) :
          LET t == recalculated.value[k]
          IN /\ t.date # NoDate /\ ValuatorSizeFor(t) = 0
             /\ t.positionSize = RatOfInt(1000) /\ t.plRs = Some(-100)
             /\ t.allocation = Rat(1, 1) /\ t.pfImpact = Rat(-1, 10)

\* ================================================================ useTrades hook specification
\* the function of (month, year) that getPortfolioSize is while the hook holds trs
PortfolioLookup(trs) ==
    [q \in {months[i] : i \in 1..12} \X Years |-> getPortfolioSize(q[1], q[2], trs)]

\* The trades the form submits: a Buy closed at a loss by an exit larger than the
\* entry; an open Buy that carries the rewardRisk the form showed for an earlier
\* price; a partial exit of a Buy with stored derived fields of an earlier state
HookShapes ==
    { [BlankTrade EXCEPT !.entry = 100, !.initialQty = 10, !.sl = 95,
           !.exit1Price = 90, !.exit1Qty = 15, !.exit1Date = Date(2024, 3, 5),
           !.positionStatus = "Closed"],
      Stored([BlankTrade EXCEPT !.entry = 50, !.initialQty = 4, !.sl = 45, !.cmp = 55],
             [rewardRisk |-> Rat(5, 1)]),
      Stored([BlankTrade EXCEPT !.entry = 100, !.initialQty = 10, !.sl = 90, !.cmp = 130,
                  !.exit1Price = 120, !.exit1Qty = 5, !.exit1Date = Date(2024, 3, 10),
                  !.positionStatus = "Partial", !.plRs = Some(40)],
             [allocation |-> Rat(1, 1), pfImpact |-> Rat(1, 1), cummPf |-> Rat(1, 1),
              holdingDays |-> 3, openQty |-> 10]) }
\* the date the form gives the trade of each id
HookDateOf(id) == IF id = "t2" THEN Date(2024, 2, 10) ELSE Date(2024, 1, 15)
HookIds == {TradeIds[k] : k \in 1..MaxTrades}
Submissions ==
    {[x[1] EXCEPT !.id = x[2], !.tradeNo = "1", !.date = HookDateOf(x[2])] :
        x \in HookShapes \X HookIds}

InitHook ==
    /\ trades = <<>>
    /\ yearlyStartingCapitals \in OrchLedgers
    /\ today = Date(2024, 4, 1)
    /\ monthlyStartingCapitalOverrides = <<>>
    /\ capitalChanges = <<>>
    /\ lastCall = NoCall
    /\ fifoEntries = <<>> /\ fifoExits = <<>> /\ fifoSide = "Buy" /\ fifoResult = NoCall
    /\ CalcIdle /\ AuxIdle
    /\ rawTrades = <<>> /\ recalculated = NoCall /\ recalculatedAgain = NoCall

\* setTrades(prev => recalculateAllTrades(next, getPortfolioSize)): getPortfolioSize
\* is the one of the last render, bound to the list the hook holds
SetTrades(next) ==
    /\ trades' = recalculateAllTrades(next, PortfolioLookup(trades), today)
    /\ UNCHANGED <<ledgerVars, lastCall, fifoVars, orchVars, calcVars, auxVars>>

\* addTrade(trade): [trade, ...prev]
addTrade ==
    \E trade \in Submissions :
        /\ Len(trades) < MaxTrades
        /\ \A k \in 1..Len(trades) : trades[k].id # trade.id
        /\ SetTrades(<<trade>> \o trades)

\* updateTrade(updatedTrade): prev.map(trade => trade.id === updatedTrade.id ? updatedTrade : trade)
updateTrade ==
    \E updatedTrade \in Submissions :
        SetTrades([k \in 1..Len(trades) |->
                      IF trades[k].id = updatedTrade.id THEN updatedTrade ELSE trades[k]])

\* deleteTrade(id): prev.filter(trade => trade.id !== id)
deleteTrade ==
    \E id \in HookIds :
        SetTrades(FilterSeq(trades, [k \in 1..Len(trades) |-> trades[k].id # id]))

\* the effect on [getPortfolioSize]: after a change of the list the lookup is a new
\* one and the list is recalculated with it
ForcedRecalculation ==
    /\ trades' = (IF Len(trades) = 0 THEN trades
                  ELSE recalculateAllTrades(trades, PortfolioLookup(trades), today))
    /\ UNCHANGED <<ledgerVars, lastCall, fifoVars, orchVars, calcVars, auxVars>>

NextHook == addTrade \/ updateTrade \/ deleteTrade \/ ForcedRecalculation

SpecHook == InitHook /\ [][NextHook]_vars

\* the sum of pfImpact of the trades 1..k of a list, over one common denominator
ImpactSumOf(out, k) ==
    LET den == ProdSeq([i \in 1..k |-> out[i].pfImpact.d])
    IN Rat(SumSeq([i \in 1..k |-> out[i].pfImpact.n * (den \div out[i].pfImpact.d)]), den)

\* the k-th trade of the list out holds, in every derived field save rewardRisk,
\* the value computed from its raw fields with the lookup the call was given
RederivedSaveRewardRisk(out, k, sizeOf) ==
    LET t == out[k]
        d == DerivedFields(t, sizeOf, today)
    IN /\ \A f \in {"avgEntry", "positionSize", "allocation", "slPercent", "openQty",
                    "exitedQty", "avgExitPrice", "stockMove", "holdingDays",
                    "realisedAmount", "plRs", "pfImpact"} : t[f] = d[f]
       /\ t.cummPf = ImpactSumOf(out, k)

\* the k-th trade of the list out holds the rewardRisk computed from its raw fields
RederivedRewardRisk(out, k) ==
    /\ "rewardRisk" \in DOMAIN out[k]
    /\ out[k].rewardRisk = RewardRiskComputed(out[k])

\* C12 as stated: every step of addTrade, updateTrade or deleteTrade (and of the
\* recalculation effect) leaves a list in which every trade has every derived
\* field, rewardRisk included, equal to the value recomputed from its raw fields;
\* none is the value the submitted trade carried.
C12_FullRederivation ==
    [][\A k \in 1..Len(trades') :
          /\ RederivedSaveRewardRisk(trades', k, PortfolioLookup(trades))
          /\ RederivedRewardRisk(trades', k)]_vars

\* what the steps do establish: every trade of the list, the unchanged ones
\* included, has every derived field save rewardRisk recomputed, and its
\* rewardRisk, present or absent, is the one of the trade passed in
C12_RederivedSaveRewardRisk ==
    [][\A k \in 1..Len(trades') :
          RederivedSaveRewardRisk(trades', k, PortfolioLookup(trades))]_vars

\* the hook holds two trades: one with the rewardRisk 5 it was submitted with,
\* where calcRewardRisk gives 1; one with a recomputed plRs and no rewardRisk
C12_Witness ==
    /\ Len(trades) = 2
    /\ \E k \in 1..2 :
          /\ "rewardRisk" \in DOMAIN trades[k]
          /\ trades[k].rewardRisk = Rat(5, 1)
          /\ RewardRiskComputed(trades[k]) = Rat(1, 1)
    /\ \E k \in 1..2 :
          /\ "rewardRisk" \notin DOMAIN trades[k]
          /\ trades[k].plRs = Some(-100)

\* ================================================================ open heat specification
MaxHeatTrades == 2

\* the trades of the lists: the example of an open Buy (entry 100, stop 90, 50
\* open); the same with a trailing stop; a partial exit with an average entry; a
\* closed trade; trades with a stop at or above the entry, without a stop,
\* without an open quantity; trades of a month of half the size and of size 0
HeatBase ==
    [date |-> Date(2024, 1, 15), positionStatus |-> "Open", avgEntry |-> RatZero,
     entry |-> 100, sl |-> 90, tsl |-> 0, openQty |-> 50]
HeatTrades ==
    { HeatBase,
      [HeatBase EXCEPT !.tsl = 95],
      [HeatBase EXCEPT !.positionStatus = "Partial", !.avgEntry = Rat(205, 2), !.openQty = 20],
      [HeatBase EXCEPT !.positionStatus = "Closed"],
      [HeatBase EXCEPT !.sl = 110],
      [HeatBase EXCEPT !.sl = 0],
      [HeatBase EXCEPT !.positionStatus = "Partial", !.openQty = 0],
      [HeatBase EXCEPT !.date = Date(2024, 2, 10)],
      [HeatBase EXCEPT !.date = Date(2024, 3, 3)] }

\* every combination of the fields of a single trade
HeatGrid ==
    { [date |-> x[1], positionStatus |-> x[2], avgEntry |-> x[3][1], entry |-> x[3][2],
       sl |-> x[4][1], tsl |-> x[4][2], openQty |-> x[5]] :
        x \in {Date(2024, 1, 15), Date(2024, 2, 10), Date(2024, 3, 3)}
              \X {"Open", "Partial", "Closed"}
              \X {<<RatZero, 100>>, <<Rat(205, 2), 100>>, <<RatZero, 0>>}
              \X {<<90, 0>>, <<90, 95>>, <<0, 95>>, <<0, 0>>, <<110, 0>>, <<90, 100>>, <<100, 0>>}
              \X {0, 50, -5} }

\* the sizes the valuator has for the months: 100000, but 50000 for February
\* 2024 and 0 for March 2024
HeatSizes ==
    [q \in {months[i] : i \in 1..12} \X Years |->
        IF q = <<"Feb", 2024>> THEN 50000 ELSE IF q = <<"Mar", 2024>> THEN 0 ELSE 100000]
HeatDefaultSize == 20000

InitHeat ==
    /\ \E passed \in BOOLEAN :
          \E trs \in UNION {[1..n -> HeatTrades] : n \in 0..MaxHeatTrades}
                     \cup {<<g>> : g \in HeatGrid} :
              heatArgs = [trades |-> trs, portfolioSize |-> HeatDefaultSize,
                          getPortfolioSize |-> IF passed THEN Some(HeatSizes) ELSE Null]
    /\ heatResult = NoCall
    /\ xirrArgs = NoCall /\ xirrResult = NoCall
    /\ yearlyStartingCapitals = <<>>
    /\ monthlyStartingCapitalOverrides = <<>>
    /\ capitalChanges = <<>>
    /\ trades = <<>>
    /\ lastCall = NoCall
    /\ fifoEntries = <<>> /\ fifoExits = <<>> /\ fifoSide = "Buy" /\ fifoResult = NoCall
    /\ rawTrades = <<>> /\ recalculated = NoCall /\ recalculatedAgain = NoCall /\ today = NoDate
    /\ AuxIdle

CalcOpenHeat ==
    /\ heatResult = NoCall
    /\ heatResult' = [fn |-> "calcOpenHeat",
                      value |-> calcOpenHeat(heatArgs.trades, heatArgs.portfolioSize,
                                             heatArgs.getPortfolioSize)]
    /\ UNCHANGED <<heatArgs, xirrArgs, xirrResult, ledgerVars, trades, lastCall, fifoVars, orchVars, auxVars>>

NextHeat == CalcOpenHeat

SpecHeat == InitHeat /\ [][NextHeat]_vars

HeatDone == heatResult.fn = "calcOpenHeat"
HeatLookupPassed == heatArgs.getPortfolioSize # Null
\* the size the valuator has for the trade month of a trade
OwnMonthSize(t) == HeatSizes[<<MonthShort(t.date), FullYear(t.date)>>]
\* the sum over the trades of status Open or Partial of a list of the
\* contributions contribution[k]
SumOpenPartial(trs, contribution) ==
    RatSum([k \in 1..Len(trs) |->
               IF trs[k].positionStatus \in {"Open", "Partial"} THEN contribution[k]
               ELSE RatZero])

SingleOpenTrade ==
    /\ HeatDone /\ HeatLookupPassed
    /\ Len(heatArgs.trades) = 1
    /\ heatArgs.trades[1].positionStatus \in {"Open", "Partial"}
\* the stop, the entry price and the risk of the statement, from the raw fields
StatedStop(t) == IF t.tsl > 0 THEN t.tsl ELSE t.sl
StatedEntry(t) == IF t.avgEntry # RatZero THEN t.avgEntry ELSE RatOfInt(t.entry)
StatedRisk(t) == RatMul(RatSub(StatedEntry(t), RatOfInt(StatedStop(t))), RatOfInt(t.openQty))

\* C15: for one Open or Partial trade whose entry price, effective stop and open
\* quantity are all present, with effectiveStop = the trailing stop if it is > 0,
\* else the stop-loss, and effectiveStop < entryPrice, the contribution is
\* max(0, (entryPrice - effectiveStop) * openQty) / portfolioSizeForTradeMonth * 100
\* (for a size > 0); entry 100, sl 90, tsl 0, openQty 50, size 100000 give 0.5.
C15_HeatContribution ==
    SingleOpenTrade =>
        LET t == heatArgs.trades[1]
            size == OwnMonthSize(t)
        IN /\ (/\ StatedEntry(t) # RatZero /\ StatedStop(t) # 0 /\ t.openQty # 0
               /\ ~RatLeq(StatedEntry(t), RatOfInt(StatedStop(t)))
               /\ size > 0)
                  => heatResult.value =
                         Rat((IF StatedRisk(t).n > 0 THEN StatedRisk(t).n ELSE 0) * 100,
                             StatedRisk(t).d * size)
           /\ (t = HeatBase) => (StatedRisk(t) = RatOfInt(500) /\ heatResult.value = Rat(1, 2))

\* the heat of a trade with a stop-loss of 90 and a trailing stop of 95 has come
\* back: 5 * 50 / 100000 * 100 = 0.25
C15_Witness ==
    /\ SingleOpenTrade
    /\ heatArgs.trades[1] = [HeatBase EXCEPT !.tsl = 95]
    /\ heatResult.value = Rat(1, 4)

\* C16: the contribution of a trade is exactly 0 whenever its effective stop is at
\* or above its entry price, or its entry price, its effective stop or its open
\* quantity is missing or zero; no contribution and no total is negative.
C16_HeatZeroCase ==
    /\ SingleOpenTrade =>
          LET t == heatArgs.trades[1]
          IN (\/ StatedEntry(t) = RatZero \/ StatedStop(t) = 0 \/ t.openQty = 0
              \/ RatLeq(StatedEntry(t), RatOfInt(StatedStop(t))))
                 => heatResult.value = RatZero
    /\ HeatDone => heatResult.value.n >= 0

\* the heat of a trade whose stop-loss of 110 is above its entry of 100 has come
\* back as 0
C16_Witness ==
    /\ SingleOpenTrade
    /\ heatArgs.trades[1] = [HeatBase EXCEPT !.sl = 110]
    /\ heatResult.value = RatZero

\* ================================================================ XIRR specification
MaxFlows == 3
\* the largest numerator and denominator of a rate from which the model takes a
\* further pass of the loop: beyond it the exact fractions of a pass leave the
\* integers of the checker
MaxRateTerm == 25

XirrAmounts == {-100000, -100, 0, 121, 110000}
XirrDateLists == {<<>>, <<0>>, <<0, 365>>, <<0, 730>>, <<0, 365, 730>>}
XirrChanges == {<<>>, <<[date |-> 0, amount |-> -100000]>>, <<[date |-> 365, amount |-> 120]>>}

\* the dates and the cash flows the call of calculateXIRR is given
XirrDates == IF xirrArgs.fn = "calcXIRR"
             THEN [k \in 1..Len(XirrFlows(xirrArgs)) |-> XirrFlows(xirrArgs)[k].date]
             ELSE xirrArgs.dates
XirrCashFlows == IF xirrArgs.fn = "calcXIRR"
                 THEN [k \in 1..Len(XirrFlows(xirrArgs)) |-> XirrFlows(xirrArgs)[k].amount]
                 ELSE xirrArgs.cashFlows

InitXirr ==
    /\ \/ \E ds \in {d \in XirrDateLists : Len(d) <= MaxFlows},
             cfs \in UNION {[1..n -> XirrAmounts] : n \in 0..MaxFlows} :
              xirrArgs = [fn |-> "calculateXIRR", dates |-> ds, cashFlows |-> cfs]
       \/ \E sc \in {0, 100000}, ec \in {0, 110000}, cc \in XirrChanges :
              xirrArgs = [fn |-> "calcXIRR", startDate |-> 0, startingCapital |-> sc,
                          endDate |-> 365, endingCapital |-> ec, capitalChanges |-> cc]
    /\ xirrResult = NoCall
    /\ heatArgs = NoCall /\ heatResult = NoCall
    /\ yearlyStartingCapitals = <<>>
    /\ monthlyStartingCapitalOverrides = <<>>
    /\ capitalChanges = <<>>
    /\ trades = <<>>
    /\ lastCall = NoCall
    /\ fifoEntries = <<>> /\ fifoExits = <<>> /\ fifoSide = "Buy" /\ fifoResult = NoCall
    /\ rawTrades = <<>> /\ recalculated = NoCall /\ recalculatedAgain = NoCall /\ today = NoDate
    /\ AuxIdle

\* calcXIRR returns calculateXIRR(dates, cashFlows) * 100
XirrReturn(r) ==
    IF xirrArgs.fn = "calcXIRR" /\ r.fn = "returned"
    THEN [r EXCEPT !.value = RatMul(r.value, RatOfInt(100))]
    ELSE r

\* the call up to the loop: 0 is returned for inputs that fail the checks
XirrCall ==
    /\ xirrResult = NoCall
    /\ xirrResult' =
           XirrReturn(IF ValidXirrInputs(XirrDates, XirrCashFlows)
                      THEN [fn |-> "running", value |-> DefaultGuess, i |-> 0]
                      ELSE [fn |-> "returned", value |-> RatZero, i |-> 0])
    /\ UNCHANGED <<xirrArgs, heatArgs, heatResult, ledgerVars, trades, lastCall, fifoVars, orchVars, auxVars>>

\* one pass of the loop
NewtonStep ==
    /\ xirrResult.fn = "running"
    /\ Abs(xirrResult.value.n) <= MaxRateTerm /\ xirrResult.value.d <= MaxRateTerm
    /\ xirrResult' = XirrReturn(NewtonPass(XirrDates, XirrCashFlows, xirrResult.value, xirrResult.i))
    /\ UNCHANGED <<xirrArgs, heatArgs, heatResult, ledgerVars, trades, lastCall, fifoVars, orchVars, auxVars>>

NextXirr == XirrCall \/ NewtonStep

SpecXirr == InitXirr /\ [][NextXirr]_vars

\* the lists the call of calculateXIRR is given differ in length, have fewer than
\* 2 entries, or lack a flow > 0 or a flow < 0
InsufficientData ==
    \/ Len(XirrDates) # Len(XirrCashFlows)
    \/ Len(XirrCashFlows) < 2
    \/ \A i \in 1..Len(XirrCashFlows) : XirrCashFlows[i] <= 0
    \/ \A i \in 1..Len(XirrCashFlows) : XirrCashFlows[i] >= 0

\* C17: calculateXIRR returns 0, and calcXIRR 0 per cent, before any pass of the
\* solver, whenever the lists of dates and cash flows differ in length, have
\* fewer than 2 entries, or hold no strictly positive or no strictly negative
\* cash flow; in every other case the solver is entered.
C17_XirrInsufficientData ==
    (xirrResult # NoCall) =>
        IF InsufficientData
        THEN xirrResult = [fn |-> "returned", value |-> RatZero, i |-> 0]
        ELSE xirrResult.fn = "running" \/ xirrResult.value # RatZero \/ xirrResult.i > 0

\* calcXIRR has returned 0 for a starting capital of 0 without capital changes
\* and an ending capital of 110000
C17_Witness ==
    /\ xirrArgs.fn = "calcXIRR"
    /\ xirrArgs.startingCapital = 0 /\ xirrArgs.capitalChanges = <<>>
    /\ xirrArgs.endingCapital = 110000
    /\ xirrResult = [fn |-> "returned", value |-> RatZero, i |-> 0]

\* the call of the round trip: -100000 at day 0, +110000 at day 365
RoundTripCall ==
    \/ xirrArgs = [fn |-> "calculateXIRR", dates |-> <<0, 365>>, cashFlows |-> <<-100000, 110000>>]
    \/ xirrArgs = [fn |-> "calcXIRR", startDate |-> 0, startingCapital |-> 100000,
                   endDate |-> 365, endingCapital |-> 110000, capitalChanges |-> <<>>]
PercentFactor == IF xirrArgs.fn = "calcXIRR" THEN 100 ELSE 1

\* C18: for the cash flows -100000 at day 0 and +110000 at day 365 the solver
\* returns in its first pass, within the 100 passes allowed: the rate returned is
\* within 1e-7 of 0.10 (10 per cent from calcXIRR) and the NPV at that rate is
\* below 1e-7 in absolute value.
C18_XirrRoundTrip ==
    RoundTripCall =>
        /\ xirrResult.fn = "running" => xirrResult.i = 0
        /\ xirrResult.fn = "returned" =>
              /\ xirrResult.i < MAX_ITERATIONS
              /\ BelowEpsilon(RatSub(xirrResult.value, Rat(PercentFactor, 10)))
              /\ BelowEpsilon(calculateNPV(RatDiv(xirrResult.value, RatOfInt(PercentFactor)),
                                           XirrDates, XirrCashFlows))

\* calculateXIRR has returned 1/10 for the flows of the round trip
C18_Witness ==
    /\ xirrArgs = [fn |-> "calculateXIRR", dates |-> <<0, 365>>, cashFlows |-> <<-100000, 110000>>]
    /\ xirrResult = [fn |-> "returned", value |-> Rat(1, 10), i |-> 0]

\* ================================================================ setters of the ledger
\* The calls a settings screen makes on the yearly capitals and the monthly
\* overrides, each with the full or the short name of a month; lastCall keeps
\* the call just made.
SetterAmounts == {0, 1000, 2000}

InitSetters ==
    /\ yearlyStartingCapitals = <<>>
    /\ monthlyStartingCapitalOverrides = <<>>
    /\ capitalChanges = <<>>
    /\ trades = <<>>
    /\ lastCall = NoCall
    /\ fifoEntries = <<>> /\ fifoExits = <<>> /\ fifoSide = "Buy" /\ fifoResult = NoCall
    /\ rawTrades = <<>> /\ recalculated = NoCall /\ recalculatedAgain = NoCall /\ today = NoDate
    /\ CalcIdle /\ AuxIdle

CallSetYearlyStartingCapital ==
    \E year \in Years, amount \in SetterAmounts :
        /\ yearlyStartingCapitals' = YearlyAfterSet(yearlyStartingCapitals, year, amount)
        /\ lastCall' = [fn |-> "setYearlyStartingCapital", year |-> year, amount |-> amount]
        /\ UNCHANGED <<monthlyStartingCapitalOverrides, capitalChanges, trades, fifoVars, orchVars, calcVars, auxVars>>

CallSetMonthlyStartingCapitalOverride ==
    \E month \in OverrideTokens, year \in Years, amount \in OverrideAmounts :
        /\ monthlyStartingCapitalOverrides' =
               OverridesAfterSet(monthlyStartingCapitalOverrides, month, year, amount)
        /\ lastCall' = [fn |-> "setMonthlyStartingCapitalOverride", month |-> month,
                        year |-> year, amount |-> amount]
        /\ UNCHANGED <<yearlyStartingCapitals, capitalChanges, trades, fifoVars, orchVars, calcVars, auxVars>>

CallRemoveMonthlyStartingCapitalOverride ==
    \E month \in OverrideTokens, year \in Years :
        /\ monthlyStartingCapitalOverrides' =
               OverridesAfterRemove(monthlyStartingCapitalOverrides, month, year)
        /\ lastCall' = [fn |-> "removeMonthlyStartingCapitalOverride", month |-> month,
                        year |-> year]
        /\ UNCHANGED <<yearlyStartingCapitals, capitalChanges, trades, fifoVars, orchVars, calcVars, auxVars>>

NextSetters ==
    \/ CallSetYearlyStartingCapital
    \/ CallSetMonthlyStartingCapitalOverride
    \/ CallRemoveMonthlyStartingCapitalOverride

SpecSetters == InitSetters /\ [][NextSetters]_vars

\* ================================================================ claims on the setters
YearsHeld(list) == {list[i].year : i \in 1..Len(list)}

\* C19: after every call setYearlyStartingCapital(year, amount) the collection
\* holds at most one record per year, every year that had a record still has one,
\* getYearlyStartingCapital(year) is the amount just passed and its value for
\* every other year is what it was before the call; a year without a record
\* reads 0. No other call changes what it returns.
C19_YearlyCapitalUniqueness ==
    [][ /\ \A i, j \in 1..Len(yearlyStartingCapitals') :
              yearlyStartingCapitals'[i].year = yearlyStartingCapitals'[j].year => i = j
        /\ YearsHeld(yearlyStartingCapitals) \subseteq YearsHeld(yearlyStartingCapitals')
        /\ \A y \in Years :
              getYearlyStartingCapital(y)' =
                  IF lastCall'.fn = "setYearlyStartingCapital" /\ lastCall'.year = y
                  THEN lastCall'.amount
                  ELSE getYearlyStartingCapital(y)
        /\ \A y \in Years \ YearsHeld(yearlyStartingCapitals') :
              getYearlyStartingCapital(y)' = 0 ]_vars

\* a second call for 2024 has replaced its amount while the record of 2025 stays
C19_Witness ==
    /\ lastCall = [fn |-> "setYearlyStartingCapital", year |-> 2024, amount |-> 2000]
    /\ yearlyStartingCapitals = << [year |-> 2024, startingCapital |-> 2000],
                                   [year |-> 2025, startingCapital |-> 1000] >>
    /\ getYearlyStartingCapital(2024) = 2000
    /\ getYearlyStartingCapital(2025) = 1000

\* the full and the short name of one month
SameMonth(a, b) ==
    \/ a = b
    \/ a \in DOMAIN monthMap /\ monthMap[a] = b
    \/ b \in DOMAIN monthMap /\ monthMap[b] = a

\* C20: after every call of setMonthlyStartingCapitalOverride or
\* removeMonthlyStartingCapitalOverride, made with the short or the full name of
\* the month, at most one override exists per (month, year);
\* getMonthlyStartingCapitalOverride(month, year), asked with either name, is the
\* amount just set for that month and year, null when it was just removed, and
\* for every other (month, year) what it was before the call; a (month, year)
\* without an override reads null.
C20_OverrideUniqueness ==
    [][ /\ \A i, j \in 1..Len(monthlyStartingCapitalOverrides') :
              ( /\ SameMonth(monthlyStartingCapitalOverrides'[i].month,
                              monthlyStartingCapitalOverrides'[j].month)
                /\ monthlyStartingCapitalOverrides'[i].year =
                       monthlyStartingCapitalOverrides'[j].year ) => i = j
        /\ \A m \in OverrideTokens, y \in Years :
              getMonthlyStartingCapitalOverride(m, y)' =
                  IF /\ lastCall'.fn = "setMonthlyStartingCapitalOverride"
                     /\ SameMonth(lastCall'.month, m) /\ lastCall'.year = y
                  THEN Some(lastCall'.amount)
                  ELSE IF /\ lastCall'.fn = "removeMonthlyStartingCapitalOverride"
                          /\ SameMonth(lastCall'.month, m) /\ lastCall'.year = y
                  THEN Null
                  ELSE getMonthlyStartingCapitalOverride(m, y)
        /\ \A m \in OverrideTokens, y \in Years :
              (\A i \in 1..Len(monthlyStartingCapitalOverrides') :
                   ~( /\ SameMonth(monthlyStartingCapitalOverrides'[i].month, m)
                      /\ monthlyStartingCapitalOverrides'[i].year = y ))
              => getMonthlyStartingCapitalOverride(m, y)' = Null ]_vars

\* the override of March 2024 set under its full name is read under both names,
\* next to an override of January 2024 that a removal under the full name of
\* March 2025 has left alone
C20_Witness ==
    /\ lastCall = [fn |-> "removeMonthlyStartingCapitalOverride", month |-> "March",
                   year |-> 2025]
    /\ Len(monthlyStartingCapitalOverrides) = 2
    /\ getMonthlyStartingCapitalOverride("March", 2024) = Some(500)
    /\ getMonthlyStartingCapitalOverride("Mar", 2024) = Some(500)
    /\ getMonthlyStartingCapitalOverride("Jan", 2024) = Some(0)
    /\ getMonthlyStartingCapitalOverride("Mar", 2025) = Null

\* ================================================================ valuation passes
\* A ledger as the setters leave it, a trade list, and the calls made on them: the
\* bulk valuation, and single calls of calculateMonthlyTruePortfolio that share
\* the Map of one pass, in any order, until a new pass starts with a new Map.
PassLedgers ==
    { [yearly |-> <<>>, overrides |-> <<>>, changes |-> <<>>],
      [yearly |-> <<[year |-> 2024, startingCapital |-> 1000]>>,
       overrides |-> <<>>,
       changes |-> <<[id |-> 1, date |-> Date(2025, 2, 10), amount |-> 200, type |-> "deposit"]>>],
      [yearly |-> <<[year |-> 2024, startingCapital |-> 1000],
                    [year |-> 2025, startingCapital |-> 2000]>>,
       overrides |-> <<[id |-> <<"Mar", 2024>>, month |-> "Mar", year |-> 2024,
                        startingCapital |-> 500],
                       [id |-> <<"Nov", 2025>>, month |-> "Nov", year |-> 2025,
                        startingCapital |-> 0]>>,
       changes |-> <<[id |-> 1, date |-> Date(2024, 3, 5), amount |-> 300, type |-> "withdrawal"]>>],
      [yearly |-> <<[year |-> 999, startingCapital |-> 700],
                    [year |-> 2024, startingCapital |-> 1000]>>,
       overrides |-> <<>>, changes |-> <<>>] }
PassTokens == {"Jan", "January", "Feb", "Mar", "March", "Dec", "December", "Foo"}

InitPass ==
    /\ \E ledger \in PassLedgers :
          /\ yearlyStartingCapitals = ledger.yearly
          /\ monthlyStartingCapitalOverrides = ledger.overrides
          /\ capitalChanges = ledger.changes
    /\ trades \in ValuatorTradeLists
    /\ lastCall = NoCall
    /\ fifoEntries = <<>> /\ fifoExits = <<>> /\ fifoSide = "Buy" /\ fifoResult = NoCall
    /\ rawTrades = <<>> /\ recalculated = NoCall /\ recalculatedAgain = NoCall /\ today = NoDate
    /\ CalcIdle
    /\ passMemo = EmptyMemo /\ metricArgs = NoCall /\ metricResult = NoCall
    /\ MountIdle

\* one call of calculateMonthlyTruePortfolio with the Map of the pass
CalculateInPass ==
    \E month \in PassTokens, year \in Years :
        LET r == calculateMonthlyTruePortfolio(month, year, trades, passMemo)
        IN /\ passMemo' = r.memo
           /\ lastCall' = [fn |-> "calculateMonthlyTruePortfolio", month |-> month,
                           year |-> year, threw |-> r.threw, value |-> r.value,
                           fresh |-> passMemo = EmptyMemo]
           /\ UNCHANGED <<ledgerVars, trades, fifoVars, orchVars, calcVars,
                          metricArgs, metricResult, mountVars>>

\* the pass is over: the next call gets a new Map
NewPass ==
    /\ passMemo # EmptyMemo
    /\ passMemo' = EmptyMemo
    /\ lastCall' = NoCall
    /\ UNCHANGED <<ledgerVars, trades, fifoVars, orchVars, calcVars,
                   metricArgs, metricResult, mountVars>>

\* a caller asks for all the snapshots; the Map of that call is its own
GetAllMonthlyTruePortfolios ==
    /\ lastCall' = [fn |-> "getAllMonthlyTruePortfolios",
                    value |-> getAllMonthlyTruePortfolios(trades)]
    /\ UNCHANGED <<ledgerVars, trades, fifoVars, orchVars, calcVars, auxVars>>

NextPass == CalculateInPass \/ NewPass \/ GetAllMonthlyTruePortfolios

SpecPass == InitPass /\ [][NextPass]_vars

\* ================================================================ claims on the valuation passes
BulkDone == lastCall.fn = "getAllMonthlyTruePortfolios"
\* the years of the yearly starting capitals, of the trade dates and of the
\* capital-change dates
DataYears ==
    {yearlyStartingCapitals[i].year : i \in 1..Len(yearlyStartingCapitals)}
    \cup {trades[i].date.y : i \in {k \in 1..Len(trades) : trades[k].date # NoDate}}
    \cup {capitalChanges[i].date.y :
              i \in {k \in 1..Len(capitalChanges) : capitalChanges[k].date # NoDate}}
\* exactly one snapshot for each month of each year that has data, none for
\* another year
BulkCoverage(list) ==
    /\ \A y \in DataYears, i \in 1..12 :
          Cardinality({k \in 1..Len(list) : list[k].month = months[i] /\ list[k].year = y}) = 1
    /\ \A k \in 1..Len(list) : list[k].year \in DataYears /\ MonthIndexOf(list[k].month) # 0

\* C21: getAllMonthlyTruePortfolios returns exactly one snapshot for each
\* (month, year) with month in Jan..Dec and year among the years of the yearly
\* starting capitals, the trade dates and the capital-change dates, ordered by
\* year ascending and then by calendar month, and none for another year.
C21_BulkCoverage ==
    BulkDone =>
        /\ BulkCoverage(lastCall.value)
        /\ \A j, k \in 1..Len(lastCall.value) :
              j < k =>
                  \/ lastCall.value[j].year < lastCall.value[k].year
                  \/ /\ lastCall.value[j].year = lastCall.value[k].year
                     /\ MonthIndexOf(lastCall.value[j].month) < MonthIndexOf(lastCall.value[k].month)

\* C21, what the code keeps: one snapshot per month of each year with data and no
\* other; the months of a year in calendar order; the years in the order of
\* their decimal strings, which is the ascending order for years of equal length.
C21_BulkCoverageByString ==
    BulkDone =>
        /\ BulkCoverage(lastCall.value)
        /\ \A j, k \in 1..Len(lastCall.value) :
              j < k =>
                  \/ CompareStrings(DecimalString(lastCall.value[j].year),
                                    DecimalString(lastCall.value[k].year)) < 0
                  \/ /\ lastCall.value[j].year = lastCall.value[k].year
                     /\ MonthIndexOf(lastCall.value[j].month) < MonthIndexOf(lastCall.value[k].month)

\* the bulk valuation of a ledger with capitals for 999 and 2024 has put the
\* twelve snapshots of 2024 before those of 999
C21_Witness ==
    /\ BulkDone
    /\ DataYears = {999, 2024}
    /\ Len(lastCall.value) = 24
    /\ lastCall.value[1].year = 2024 /\ lastCall.value[1].month = "Jan"
    /\ lastCall.value[13].year = 999 /\ lastCall.value[13].month = "Jan"

FreshCall ==
    /\ lastCall.fn = "calculateMonthlyTruePortfolio"
    /\ lastCall.fresh /\ ~lastCall.threw
\* the calendar month at which the chain of month i ends: the latest month up to
\* i that is January or has an override
ChainStart(i, year) ==
    CHOOSE a \in 1..i : /\ a = 1 \/ HasOverride(a, year)
                        /\ \A b \in (a + 1)..i : ~HasOverride(b, year)

\* C22: a call of valuate with a new Map, for a valid month and any year, ends
\* after at most 11 nested calls; the months it evaluates are those from the
\* latest month up to it that is January or has an override, all of the same
\* year.
C22_BoundedRecursion ==
    FreshCall =>
        LET i == MonthIndexOf(normalizeMonth(lastCall.month))
        IN /\ Cardinality(DOMAIN passMemo) - 1 <= 11
           /\ DOMAIN passMemo = {<<months[k], lastCall.year>> : k \in ChainStart(i, lastCall.year)..i}

\* December of a year without overrides has been evaluated with 11 nested calls;
\* so has December 2024 from the override of March, with 9
C22_Witness ==
    /\ FreshCall
    /\ lastCall.month = "December"
    /\ \/ lastCall.year = 2025 /\ monthlyStartingCapitalOverrides = <<>>
          /\ Cardinality(DOMAIN passMemo) = 12
       \/ lastCall.year = 2024 /\ HasOverride(3, 2024)
          /\ Cardinality(DOMAIN passMemo) = 10

\* C26: every snapshot returned by calls of valuate that share one Map, in any
\* order and under the short or the full name of a month, and every snapshot the
\* bulk valuation returns, equals the snapshot a call with a new Map returns for
\* the same (month, year); a call that throws with a new Map throws with a shared one.
C26_MemoTransparency ==
    /\ lastCall.fn = "calculateMonthlyTruePortfolio" =>
          LET alone == getMonthlyTruePortfolio(lastCall.month, lastCall.year, trades)
          IN lastCall.threw = alone.threw /\ lastCall.value = alone.value
    /\ \A k \in DOMAIN passMemo :
          passMemo[k] = getMonthlyTruePortfolio(k[1], k[2], trades).value
    /\ BulkDone =>
          \A k \in 1..Len(lastCall.value) :
              lastCall.value[k] =
                  getMonthlyTruePortfolio(lastCall.value[k].month, lastCall.value[k].year,
                                          trades).value

\* March 2025 was answered from a Map that already held it, after calls for
\* months of 2024 and 2025
C26_Witness ==
    /\ lastCall.fn = "calculateMonthlyTruePortfolio"
    /\ lastCall.month = "March" /\ lastCall.year = 2025 /\ ~lastCall.fresh
    /\ <<"Dec", 2024>> \in DOMAIN passMemo
    /\ <<"Dec", 2025>> \in DOMAIN passMemo
    /\ yearlyStartingCapitals # <<>>
    /\ lastCall.value = passMemo[<<"Mar", 2025>>]

\* ================================================================ claims on valuations between ledger changes
\* the final capital of calendar month i of year, from the ledger and the trade
\* list as they are now
RECURSIVE FinalCapitalNow(_, _)
FinalCapitalNow(i, year) ==
    LET yearly == {k \in 1..Len(yearlyStartingCapitals) : yearlyStartingCapitals[k].year = year}
        start == IF HasOverride(i, year) THEN OverrideAmount(i, year)
                 ELSE IF i = 1
                 THEN (IF yearly = {} THEN 0
                       ELSE yearlyStartingCapitals[CHOOSE k \in yearly : TRUE].startingCapital)
                 ELSE FinalCapitalNow(i - 1, year)
    IN start + NetCapitalChange(i, year) + PLByTradeDate(i, year)

\* C27: whatever changes of the ledger (yearly capital, overrides, capital
\* changes) and valuations came before, getTruePortfolioSize(month, year)
\* returns the final capital that follows from the ledger as it is at the call,
\* and the fallback 100000 for an invalid month: nothing computed before a change
\* is returned after it.
C27_NoStaleValuation ==
    lastCall.fn = "getTruePortfolioSize" =>
        lastCall.value =
            IF ValidToken(lastCall.month)
            THEN FinalCapitalNow(MonthIndexOf(normalizeMonth(lastCall.month)), lastCall.year)
            ELSE Fallback

\* December 2024 is valued after the yearly capital, a capital change and an
\* override of a month of 2024 were entered, and the value shows all three
C27_Witness ==
    /\ lastCall.fn = "getTruePortfolioSize"
    /\ lastCall.month = "December" /\ lastCall.year = 2024
    /\ getYearlyStartingCapital(2024) = 1000
    /\ Len(capitalChanges) = 1 /\ capitalChanges[1].date.y = 2024
    /\ HasOverride(3, 2024) /\ HasOverride(1, 2024)
    /\ lastCall.value = FinalCapitalNow(12, 2024)
    /\ lastCall.value # 0

\* ================================================================ claims on the frame of the orchestrator
\* the fields a user enters, the name apart
RawFields ==
    (DOMAIN BlankTrade) \ {"name", "avgEntry", "exitedQty", "avgExitPrice", "plRs"}

\* C28: recalculateAllTrades returns one trade per trade of the list passed in,
\* with the same ids; the list passed in is left as it was, in order and in
\* content; every raw field of a trade returned is that of the trade passed in
\* with the same id, the name being upper-cased and a stored openHeat dropped.
C28_OrchestratorFrame ==
    [][ (recalculated = NoCall /\ recalculated' # NoCall) =>
            /\ rawTrades' = rawTrades
            /\ Len(recalculated'.value) = Len(rawTrades)
            /\ \A k \in 1..Len(rawTrades) :
                  Cardinality({i \in 1..Len(recalculated'.value) :
                                  recalculated'.value[i].id = rawTrades[k].id}) = 1
            /\ \A i \in 1..Len(recalculated'.value) :
                  LET out == recalculated'.value[i]
                      in == rawTrades[CHOOSE k \in 1..Len(rawTrades) : rawTrades[k].id = out.id]
                  IN /\ \A f \in RawFields : out[f] = in[f]
                     /\ out.name = ToUpperCase(in.name)
                     /\ "openHeat" \notin DOMAIN out ]_vars

\* two dated trades passed in with the later one first are returned in date
\* order, the list passed in unchanged; the trade that stored an openHeat has lost it
C28_Witness ==
    /\ OrchDone
    /\ Len(rawTrades) = 2
    /\ rawTrades[1].date = Date(2024, 2, 10) /\ rawTrades[2].date = Date(2024, 1, 15)
    /\ "openHeat" \in DOMAIN rawTrades[1]
    /\ rawTrades[1].name = "abc"
    /\ recalculated.value[1].id = rawTrades[2].id
    /\ recalculated.value[2].id = rawTrades[1].id
    /\ recalculated.value[2].name = "ABC"
    /\ "openHeat" \notin DOMAIN recalculated.value[2]

\* ================================================================ holding-days specification
\* calcHoldingDays called on lists the caller keeps, and called again on the same
\* lists. initialQty is the quantity of the trade's initial entry lot, which the
\* function is not given. The exit lists have at most two elements: on a longer
\* list with a date that does not parse the comparator is not a consistent one.
HoldEntryDates == {Date(2024, 1, 1), BadDate, NoDate}
HoldExitDates == {NoDate, Date(2024, 1, 11)}
HoldInitialQtys == {1, 10}
HoldPyramidLists ==
    { <<>>,
      <<[date |-> Date(2024, 1, 6), qty |-> 10]>>,
      <<[date |-> BadDate, qty |-> 5]>>,
      <<[date |-> Date(2024, 1, 6), qty |-> 10], [date |-> Date(2024, 1, 9), qty |-> 0]>> }
HoldExitLists ==
    { <<>>,
      <<[date |-> Date(2024, 1, 11), qty |-> 1]>>,
      <<[date |-> Date(2024, 1, 11), qty |-> 20]>>,
      <<[date |-> BadDate, qty |-> 20]>>,
      <<[date |-> Date(2024, 1, 21), qty |-> 5], [date |-> Date(2024, 1, 11), qty |-> 2]>>,
      <<[date |-> Date(2024, 1, 11), qty |-> 1], [date |-> BadDate, qty |-> 5]>> }

InitHold ==
    /\ \E entryDate \in HoldEntryDates, exitDate \in HoldExitDates,
          initialQty \in HoldInitialQtys,
          pyramidDates \in HoldPyramidLists, exitDates \in HoldExitLists :
          metricArgs = [fn |-> "calcHoldingDays", entryDate |-> entryDate,
                        exitDate |-> exitDate, pyramidDates |-> pyramidDates,
                        exitDates |-> exitDates, initialQty |-> initialQty]
    /\ metricResult = NoCall
    /\ today = Date(2024, 2, 1)
    /\ yearlyStartingCapitals = <<>>
    /\ monthlyStartingCapitalOverrides = <<>>
    /\ capitalChanges = <<>>
    /\ trades = <<>>
    /\ lastCall = NoCall
    /\ fifoEntries = <<>> /\ fifoExits = <<>> /\ fifoSide = "Buy" /\ fifoResult = NoCall
    /\ rawTrades = <<>> /\ recalculated = NoCall /\ recalculatedAgain = NoCall
    /\ CalcIdle
    /\ passMemo = <<>> /\ MountIdle

\* one call; the caller's exitDates are left as the loop wrote them
CalcHoldingDays ==
    /\ IF metricResult = NoCall THEN TRUE ELSE metricResult.calls = 1
    /\ metricResult' =
           [fn |-> "calcHoldingDays",
            value |-> calcHoldingDays(metricArgs.entryDate, metricArgs.exitDate,
                                      metricArgs.pyramidDates, metricArgs.exitDates, today),
            calls |-> IF metricResult = NoCall THEN 1 ELSE 2]
    /\ metricArgs' =
           [metricArgs EXCEPT !.exitDates =
               ExitDatesAfterHoldingDays(metricArgs.entryDate, metricArgs.exitDate,
                                         metricArgs.pyramidDates, metricArgs.exitDates)]
    /\ UNCHANGED <<ledgerVars, trades, lastCall, fifoVars, orchVars, calcVars,
                   passMemo, mountVars>>

NextHold == CalcHoldingDays

SpecHold == InitHold /\ [][NextHold]_vars

\* ================================================================ claims on the holding days
\* the first call of calcHoldingDays on the caller's lists
FirstHoldingCall == metricResult = NoCall /\ metricResult' # NoCall
\* any call of it
HoldingCall == metricResult' # metricResult

\* the entry lots of the call as legs with a quantity each: the initial entry with
\* the quantity `first`, then the dated pyramids with theirs
LotLegs(a, first) ==
    LET dated == FilterSeq(a.pyramidDates,
                           [i \in 1..Len(a.pyramidDates) |-> a.pyramidDates[i].date # NoDate])
    IN <<[entryDate |-> a.entryDate, quantity |-> first]>>
       \o [k \in 1..Len(dated) |-> [entryDate |-> dated[k].date, quantity |-> dated[k].qty]]
\* every date parses, every lot has a quantity, and all legs end on one day: no
\* exit list and the exit date (or today), or one exit lot dated as the exit date
OneExitDay(a) ==
    /\ Parses(a.entryDate)
    /\ \A i \in 1..Len(a.pyramidDates) :
          Parses(a.pyramidDates[i].date) /\ a.pyramidDates[i].qty > 0
    /\ \/ a.exitDates = <<>>
       \/ Len(a.exitDates) = 1 /\ a.exitDates[1].date = a.exitDate /\ a.exitDate # NoDate
\* the mean of max(1, end - entry) over the legs, weighted by their quantities and
\* rounded to the nearest integer
WeightedDays(legs, end) ==
    LET totalDays == SumSeq([k \in 1..Len(legs) |->
                         Max(1, GetTime(end) - GetTime(legs[k].entryDate)) * legs[k].quantity])
        totalQuantity == SumSeq([k \in 1..Len(legs) |-> legs[k].quantity])
    IN (2 * totalDays + totalQuantity) \div (2 * totalQuantity)
EndDay(a) == IF a.exitDate # NoDate THEN a.exitDate ELSE today

\* C23: holdingDays is the mean of the per-leg days max(1, end - entry), rounded,
\* over one leg per entry lot, each leg weighted by its own lot quantity, the
\* initial entry included (stated for the calls in which all legs end on one day).
C23_HoldingDaysOwnQuantities ==
    [][ (FirstHoldingCall /\ OneExitDay(metricArgs)) =>
            metricResult'.value =
                WeightedDays(LotLegs(metricArgs, metricArgs.initialQty), EndDay(metricArgs)) ]_vars

\* C23, what the code computes: the same mean with the weight 1 for the leg of
\* the initial entry, whatever its quantity; a single entry on 2024-01-01 with a
\* single exit on 2024-01-11 gives 10.
C23_HoldingDaysBaseQuantity ==
    [][ (FirstHoldingCall /\ OneExitDay(metricArgs)) =>
            /\ metricResult'.value = WeightedDays(LotLegs(metricArgs, 1), EndDay(metricArgs))
            /\ ( ( /\ metricArgs.entryDate = Date(2024, 1, 1) /\ metricArgs.pyramidDates = <<>>
                    /\ metricArgs.exitDate = Date(2024, 1, 11) )
                  => metricResult'.value = 10 ) ]_vars

\* an initial lot of 10 entered on 2024-01-01 and a pyramid of 10 entered on
\* 2024-01-06, all sold on 2024-01-11: 5 is returned (the weights 1 and 10), where
\* the quantities 10 and 10 give 8
C23_Witness ==
    /\ metricResult # NoCall
    /\ metricResult.calls = 1
    /\ metricArgs.entryDate = Date(2024, 1, 1) /\ metricArgs.initialQty = 10
    /\ metricArgs.pyramidDates = <<[date |-> Date(2024, 1, 6), qty |-> 10]>>
    /\ metricArgs.exitDate = Date(2024, 1, 11)
    /\ Len(metricArgs.exitDates) = 1 /\ metricArgs.exitDates[1].date = Date(2024, 1, 11)
    /\ metricResult.value = 5
    /\ WeightedDays(LotLegs(metricArgs, 10), Date(2024, 1, 11)) = 8

\* a date given to the call that does not parse
SomeBadDate(a) ==
    \/ a.entryDate = BadDate
    \/ a.exitDate = BadDate
    \/ \E i \in 1..Len(a.pyramidDates) : a.pyramidDates[i].date = BadDate
    \/ \E i \in 1..Len(a.exitDates) : a.exitDates[i].date = BadDate

\* C24: calcHoldingDays returns 0 whenever one of the dates it is given (entry,
\* pyramid or exit) does not parse, also when the other dates are valid.
C24_ZeroOnBadDate ==
    [][ (FirstHoldingCall /\ SomeBadDate(metricArgs)) => metricResult'.value = 0 ]_vars

\* C24, what the code keeps: the call returns (it never throws); it returns 0
\* when the entry date is missing and when no leg is left with an entry date
\* that parses and an exit date that parses or is absent.
C24_ZeroWhenNoLegCounts ==
    [][ ( /\ FirstHoldingCall
          /\ \/ metricArgs.entryDate = NoDate
             \/ /\ ~Parses(metricArgs.entryDate)
                /\ \A i \in 1..Len(metricArgs.pyramidDates) :
                      ~Parses(metricArgs.pyramidDates[i].date) )
        => metricResult'.value = 0 ]_vars

\* the entry date does not parse, the pyramid of 2024-01-06 and the exit of
\* 2024-01-11 do: the call returns the 5 days of the pyramid leg
C24_Witness ==
    /\ metricResult # NoCall
    /\ metricResult.calls = 1
    /\ metricArgs.entryDate = BadDate
    /\ metricArgs.pyramidDates = <<[date |-> Date(2024, 1, 6), qty |-> 10]>>
    /\ metricArgs.exitDate = Date(2024, 1, 11)
    /\ metricArgs.exitDates = <<>>
    /\ metricResult.value = 5

\* C29: a call of calcHoldingDays leaves the caller's lists as they were (every
\* lot with its date and qty), so that a second call on the same arguments
\* returns what the first returned.
C29_MetricPurity ==
    [][ HoldingCall =>
            /\ metricArgs' = metricArgs
            /\ (metricResult # NoCall => metricResult'.value = metricResult.value) ]_vars

\* the second call on exit lots of 5 and 2 shares has returned 15 where the
\* first returned 5, and both lots are left with a qty of 0
C29_Witness ==
    /\ metricResult # NoCall
    /\ metricResult.calls = 2
    /\ metricArgs.entryDate = Date(2024, 1, 1)
    /\ metricArgs.pyramidDates = <<[date |-> Date(2024, 1, 6), qty |-> 10]>>
    /\ metricArgs.exitDates = <<[date |-> Date(2024, 1, 21), qty |-> 0],
                                [date |-> Date(2024, 1, 11), qty |-> 0]>>
    /\ metricResult.value = 15

\* ================================================================ the stock move
\* calcStockMove as recalculateAllTrades calls it: average prices (fractions), the
\* current price, the open and exited quantities, the status and the side; 0
\* stands for a price that is missing
MoveEntries == {RatZero, RatOfInt(100), Rat(205, 2)}
MoveExits == {RatZero, RatOfInt(110), Rat(285, 3)}
MoveCmps == {0, 120, 90}
MoveOpenQtys == {0, 10}
MoveExitedQtys == {0, 5}
MoveStatuses == {"Open", "Closed", "Partial"}
MoveSides == {"Buy", "Sell"}

InitMove ==
    /\ \E avgEntry \in MoveEntries, avgExit \in MoveExits, cmp \in MoveCmps,
          openQty \in MoveOpenQtys, exitedQty \in MoveExitedQtys,
          positionStatus \in MoveStatuses, side \in MoveSides :
          metricArgs = [fn |-> "calcStockMove", avgEntry |-> avgEntry, avgExit |-> avgExit,
                        cmp |-> cmp, openQty |-> openQty, exitedQty |-> exitedQty,
                        positionStatus |-> positionStatus, buySell |-> side]
    /\ metricResult = NoCall
    /\ today = Date(2024, 2, 1)
    /\ yearlyStartingCapitals = <<>>
    /\ monthlyStartingCapitalOverrides = <<>>
    /\ capitalChanges = <<>>
    /\ trades = <<>>
    /\ lastCall = NoCall
    /\ fifoEntries = <<>> /\ fifoExits = <<>> /\ fifoSide = "Buy" /\ fifoResult = NoCall
    /\ rawTrades = <<>> /\ recalculated = NoCall /\ recalculatedAgain = NoCall
    /\ CalcIdle
    /\ passMemo = <<>> /\ MountIdle

CalcStockMove ==
    /\ metricResult = NoCall
    /\ metricResult' =
           [fn |-> "calcStockMove",
            value |-> calcStockMove(metricArgs.avgEntry, metricArgs.avgExit, metricArgs.cmp,
                                    metricArgs.openQty, metricArgs.exitedQty,
                                    metricArgs.positionStatus, metricArgs.buySell)]
    /\ UNCHANGED <<ledgerVars, trades, lastCall, fifoVars, orchVars, calcVars,
                   passMemo, metricArgs, mountVars>>

NextMove == CalcStockMove

SpecMove == InitMove /\ [][NextMove]_vars

\* (p - e) / e * 100 for the fractions p and e, e # 0, as one quotient
PctOver(p, e) == Rat((p.n * e.d - e.n * p.d) * 100, p.d * e.n)
\* the move stated for side Buy
StatedBuyMove(a) ==
    LET totalQty == a.openQty + a.exitedQty
        cmp == RatOfInt(a.cmp)
    IN IF a.avgEntry.n = 0 \/ totalQty = 0 THEN RatZero
       ELSE IF a.positionStatus = "Open"
       THEN (IF a.cmp = 0 THEN RatZero ELSE PctOver(cmp, a.avgEntry))
       ELSE IF a.positionStatus = "Closed"
       THEN (IF a.avgExit.n = 0 THEN RatZero ELSE PctOver(a.avgExit, a.avgEntry))
       ELSE (IF a.cmp = 0 \/ a.avgExit.n = 0 THEN RatZero
             ELSE LET realizedMove == PctOver(a.avgExit, a.avgEntry)
                      unrealizedMove == PctOver(cmp, a.avgEntry)
                  IN Rat(realizedMove.n * unrealizedMove.d * a.exitedQty
                           + unrealizedMove.n * realizedMove.d * a.openQty,
                         realizedMove.d * unrealizedMove.d * totalQty))
MoveDone == metricResult # NoCall /\ metricResult.fn = "calcStockMove"

\* C25: calcStockMove returns (cmp - avgEntry) / avgEntry * 100 for Open,
\* (avgExit - avgEntry) / avgEntry * 100 for Closed and the mean of the two
\* weighted by exitedQty and openQty for Partial; for Sell it returns the exact
\* negation of the Buy result on the same inputs; it returns 0 when avgEntry, a
\* price the status needs or the total quantity is 0.
C25_StockMove ==
    MoveDone =>
        /\ metricResult.value =
               IF metricArgs.buySell = "Sell" THEN RatNeg(StatedBuyMove(metricArgs))
               ELSE StatedBuyMove(metricArgs)
        /\ metricResult.value =
               IF metricArgs.buySell = "Sell"
               THEN RatNeg(calcStockMove(metricArgs.avgEntry, metricArgs.avgExit,
                                         metricArgs.cmp, metricArgs.openQty,
                                         metricArgs.exitedQty, metricArgs.positionStatus, "Buy"))
               ELSE metricResult.value
        /\ ( \/ metricArgs.avgEntry.n = 0
             \/ metricArgs.openQty + metricArgs.exitedQty = 0
             \/ metricArgs.positionStatus \in {"Open", "Partial"} /\ metricArgs.cmp = 0
             \/ metricArgs.positionStatus \in {"Closed", "Partial"} /\ metricArgs.avgExit.n = 0 )
           => metricResult.value = RatZero

\* a Partial short at 205/2 with 5 shares covered at 95 and 10 open at 90: the
\* move is the negation of (-750/102.5 * 5 + -1250/102.5 * 10) / 15
C25_Witness ==
    /\ MoveDone
    /\ metricArgs.positionStatus = "Partial" /\ metricArgs.buySell = "Sell"
    /\ metricArgs.avgEntry = Rat(205, 2) /\ metricArgs.avgExit = RatOfInt(95)
    /\ metricArgs.cmp = 90 /\ metricArgs.openQty = 10 /\ metricArgs.exitedQty = 5
    /\ metricResult.value.n > 0
    /\ metricResult.value = Rat(1300, 123)

\* ================================================================ useTrades: mount and saves
\* The hook's trades state, the remote store and localStorage hold lists of
\* trades; a trade is its id here, and the ids are in the order of the trade
\* dates, so that recalculateAllTrades puts a list in ascending order of id.
MaxMountTrades == 2
MaxUpserts == 3
MountIds == 1..3
MountRemoteLists == {<<>>, <<1>>, <<1, 2>>}
MountLocalLists == {<<>>, <<1>>, <<3>>}

\* recalculateAllTrades on a list of ids: sorted by date
RecalculatedIds(list) ==
    StableSort(list, [i \in 1..Len(list) |-> [j \in 1..Len(list) |-> list[i] - list[j]]])
IdsOf(list) == {list[i] : i \in 1..Len(list)}

\* the first render: trades = [], isLoading = true, no effect has run
InitMount ==
    /\ trades = <<>>
    /\ isLoading = TRUE
    /\ remoteTrades \in MountRemoteLists
    /\ localTrades \in MountLocalLists
    /\ fetchState = "idle" /\ fetchReply = <<>>
    /\ dueEffects = {}
    /\ upsertLog = <<>>
    /\ today = Date(2024, 2, 1)
    /\ yearlyStartingCapitals = <<>>
    /\ monthlyStartingCapitalOverrides = <<>>
    /\ capitalChanges = <<>>
    /\ lastCall = NoCall
    /\ fifoEntries = <<>> /\ fifoExits = <<>> /\ fifoSide = "Buy" /\ fifoResult = NoCall
    /\ rawTrades = <<>> /\ recalculated = NoCall /\ recalculatedAgain = NoCall
    /\ CalcIdle
    /\ passMemo = <<>> /\ metricArgs = NoCall /\ metricResult = NoCall

\* the effects of the first commit, in the order of their declaration: the fetch
\* is started; the save effects see isLoading = true and trades = []; the load
\* from localStorage sets the trades when it finds some and sets isLoading to
\* false; the forced recalculation maps the list it is given
Mount ==
    /\ fetchState = "idle"
    /\ isLoading
    /\ fetchState' = "pending"
    /\ trades' = IF Len(localTrades) > 0
                 THEN RecalculatedIds(RecalculatedIds(localTrades))
                 ELSE trades
    /\ isLoading' = FALSE
    /\ dueEffects' = {"saveRemote"} \cup (IF Len(localTrades) > 0 THEN {"saveLocal"} ELSE {})
    /\ UNCHANGED <<ledgerVars, lastCall, fifoVars, orchVars, calcVars, passMemo,
                   metricArgs, metricResult, remoteTrades, localTrades, fetchReply,
                   upsertLog>>

\* the store answers the select of fetchTrades with the trade_data it holds
ServeFetch ==
    /\ fetchState = "pending"
    /\ fetchState' = "served"
    /\ fetchReply' = remoteTrades
    /\ UNCHANGED <<ledgerVars, trades, lastCall, fifoVars, orchVars, calcVars, passMemo,
                   metricArgs, metricResult, isLoading, remoteTrades, localTrades,
                   dueEffects, upsertLog>>

\* fetchTrades().then: setTrades(loadedTrades), and after the settings
\* setIsLoading(false)
DeliverFetch ==
    /\ fetchState = "served"
    /\ fetchState' = "delivered"
    /\ trades' = fetchReply
    /\ isLoading' = FALSE
    /\ dueEffects' = dueEffects \cup {"saveRemote", "saveLocal"}
    /\ UNCHANGED <<ledgerVars, lastCall, fifoVars, orchVars, calcVars, passMemo,
                   metricArgs, metricResult, remoteTrades, localTrades, fetchReply,
                   upsertLog>>

\* upsertTrades(list): the row of the single user is replaced by the list
upsertTrades(list) ==
    /\ remoteTrades' = list
    /\ upsertLog' = Append(upsertLog, [trades |-> list, replaced |-> remoteTrades,
                                       fetch |-> fetchState])

\* the effect on [trades, isLoading]: if (!isLoading) upsertTrades(trades)
SaveRemoteEffect ==
    /\ "saveRemote" \in dueEffects
    /\ dueEffects' = dueEffects \ {"saveRemote"}
    /\ IF ~isLoading THEN upsertTrades(trades) ELSE UNCHANGED <<remoteTrades, upsertLog>>
    /\ UNCHANGED <<ledgerVars, trades, lastCall, fifoVars, orchVars, calcVars, passMemo,
                   metricArgs, metricResult, isLoading, localTrades, fetchState, fetchReply>>

\* the effect on [trades]: a list that is not empty is written to localStorage
SaveLocalEffect ==
    /\ "saveLocal" \in dueEffects
    /\ dueEffects' = dueEffects \ {"saveLocal"}
    /\ localTrades' = IF Len(trades) > 0 THEN trades ELSE localTrades
    /\ UNCHANGED <<ledgerVars, trades, lastCall, fifoVars, orchVars, calcVars, passMemo,
                   metricArgs, metricResult, isLoading, remoteTrades, fetchState, fetchReply,
                   upsertLog>>

\* addTrade(trade): setTrades(prev => recalculateAllTrades([trade, ...prev]));
\* the effects of a render are flushed before the next user event is handled
AddTrade ==
    /\ fetchState # "idle"
    /\ dueEffects = {}
    /\ Len(trades) < MaxMountTrades
    /\ Len(upsertLog) < MaxUpserts
    /\ \E id \in MountIds \ IdsOf(trades) :
          trades' = RecalculatedIds(<<id>> \o trades)
    /\ dueEffects' = dueEffects \cup {"saveRemote", "saveLocal"}
    /\ UNCHANGED <<ledgerVars, lastCall, fifoVars, orchVars, calcVars, passMemo,
                   metricArgs, metricResult, isLoading, remoteTrades, localTrades,
                   fetchState, fetchReply, upsertLog>>

\* deleteTrade(id): setTrades(prev => recalculateAllTrades(prev.filter(...)))
DeleteTrade ==
    /\ fetchState # "idle"
    /\ dueEffects = {}
    /\ Len(upsertLog) < MaxUpserts
    /\ \E id \in IdsOf(trades) :
          trades' = RecalculatedIds(FilterSeq(trades,
                                              [i \in 1..Len(trades) |-> trades[i] # id]))
    /\ dueEffects' = dueEffects \cup {"saveRemote", "saveLocal"}
    /\ UNCHANGED <<ledgerVars, lastCall, fifoVars, orchVars, calcVars, passMemo,
                   metricArgs, metricResult, isLoading, remoteTrades, localTrades,
                   fetchState, fetchReply, upsertLog>>

NextMount ==
    \/ Mount
    \/ ServeFetch
    \/ DeliverFetch
    \/ SaveRemoteEffect
    \/ SaveLocalEffect
    \/ AddTrade
    \/ DeleteTrade

SpecMount == InitMount /\ [][NextMount]_vars

\* C30: the trade list is never written to the remote store (upsertTrades)
\* before the initial fetchTrades has delivered its result, under every
\* interleaving of the mount effects and the fetch.
C30_NoSaveBeforeLoad ==
    \A i \in 1..Len(upsertLog) : upsertLog[i].fetch = "delivered"

\* C30, what the code keeps: no list is written remotely while isLoading is
\* true, that is before the effects of the first commit have run.
C30_NoSaveWhileLoading ==
    isLoading => upsertLog = <<>>

\* the remote trades were replaced by the empty list of the first render while
\* the fetch was pending, the fetch was answered after that, and its delivery
\* left the hook, the remote store and localStorage without the stored trades
C30_Witness ==
    /\ Len(upsertLog) > 0
    /\ upsertLog[1].fetch = "pending"
    /\ upsertLog[1].trades = <<>>
    /\ upsertLog[1].replaced = <<1, 2>>
    /\ fetchState = "delivered"
    /\ trades = <<>> /\ remoteTrades = <<>> /\ localTrades = <<>>

====
